---------------------------- MODULE Spec2Model ----------------------------
(***************************************************************************)
(* Model of the botkube-awscli executor plugin: command authorization      *)
(* (normalizeCmd, isAllowed), safe archive extraction (safeJoin,           *)
(* untarGzSafe and the zip loops), the dependency resolver                 *)
(* (ensureFromBundle) and the Execute orchestrator.                        *)
(*                                                                         *)
(* Strings are TLA+ strings, handled character by character with Len,      *)
(* SubSeq and \o, so that trimming, prefix tests and path cleaning are     *)
(* computed the way the Go code computes them.                             *)
(***************************************************************************)
EXTENDS Integers, Sequences, FiniteSets, TLC

VARIABLES
    call,   \* the entry point exercised and what its run is given: the inputs
            \* of a pure function, or the URL and the archive the server holds
    ret,    \* pure-function harness: <<>> before the call, <<value>> after it
    fs,     \* the file system: absolute path -> [kind, exec, len]
    proc    \* the running invocations: id -> record of locals, pc included

vars == <<call, ret, fs, proc>>

Pending == <<>>
NoCall  == [fn |-> "none"]
Returned(v) == <<v>>

(***************************************************************************)
(* Strings (package strings)                                               *)
(***************************************************************************)

\* s[i] as a one-character string
CharAt(s, i) == SubSeq(s, i, i)

\* unicode.IsSpace restricted to the characters the model uses
IsSpace(c) == c \in {" ", "\t"}

\* strings.HasPrefix
HasPrefix(s, prefix) ==
    /\ Len(s) >= Len(prefix)
    /\ SubSeq(s, 1, Len(prefix)) = prefix

\* strings.TrimPrefix
TrimPrefix(s, prefix) ==
    IF HasPrefix(s, prefix) THEN SubSeq(s, Len(prefix) + 1, Len(s)) ELSE s

RECURSIVE TrimLeft(_)
TrimLeft(s) ==
    IF s # "" /\ IsSpace(CharAt(s, 1)) THEN TrimLeft(SubSeq(s, 2, Len(s))) ELSE s

RECURSIVE TrimRight(_)
TrimRight(s) ==
    IF s # "" /\ IsSpace(CharAt(s, Len(s)))
    THEN TrimRight(SubSeq(s, 1, Len(s) - 1))
    ELSE s

\* strings.TrimSpace
TrimSpace(s) == TrimRight(TrimLeft(s))

LowerChar(c) ==
    CASE c = "A" -> "a"
      [] c = "W" -> "w"
      [] c = "S" -> "s"
      [] c = "E" -> "e"
      [] c = "C" -> "c"
      [] c = "H" -> "h"
      [] c = "L" -> "l"
      [] c = "P" -> "p"
      [] OTHER   -> c

\* the characters of s from position i on, each mapped to lower case
RECURSIVE ToLowerFrom(_, _)
ToLowerFrom(s, i) ==
    IF i > Len(s) THEN ""
    ELSE LowerChar(CharAt(s, i)) \o ToLowerFrom(s, i + 1)

\* strings.ToLower
ToLower(s) == ToLowerFrom(s, 1)

\* the element of a singleton; in {e : x \in {v}} the value v is computed
\* once, however often e uses x
Only(S) == CHOOSE x \in S : TRUE

\* strings.Join
RECURSIVE JoinStr(_, _)
JoinStr(elems, sep) ==
    Only({IF e = <<>> THEN ""
          ELSE IF Len(e) = 1 THEN e[1]
          ELSE e[1] \o sep \o JoinStr(Tail(e), sep) : e \in {elems}})

\* all strings over alphabet of length at most n
RECURSIVE StrsUpTo(_, _)
StrsUpTo(alphabet, n) ==
    IF n = 0 THEN {""}
    ELSE LET shorter == StrsUpTo(alphabet, n - 1)
         IN  shorter \cup {s \o c : s \in shorter, c \in alphabet}

\* all sequences over S of length at most n
RECURSIVE SeqsUpTo(_, _)
SeqsUpTo(S, n) ==
    IF n = 0 THEN {<<>>}
    ELSE LET shorter == SeqsUpTo(S, n - 1)
         IN  shorter \cup {Append(q, x) : q \in shorter, x \in S}

(***************************************************************************)
(* Command Authorization Filter (config.go)                                *)
(***************************************************************************)

pluginName == "aws"

\* isAllowed with the allow-list entry left untrimmed
RECURSIVE isAllowed_EntryNotTrimmed(_, _)
isAllowed_EntryNotTrimmed(cmd, allow) ==
    IF allow = <<>> THEN FALSE
    ELSE IF HasPrefix(TrimSpace(cmd), Head(allow)) THEN TRUE
    ELSE isAllowed_EntryNotTrimmed(cmd, Tail(allow))

\* the loop of isAllowed passing over the entries that are empty once trimmed
RECURSIVE isAllowedLoop_SkipBlank(_, _)
isAllowedLoop_SkipBlank(cmd, allow) ==
    IF allow = <<>> THEN FALSE
    ELSE IF TrimSpace(Head(allow)) # "" /\ HasPrefix(cmd, TrimSpace(Head(allow))) THEN TRUE
    ELSE isAllowedLoop_SkipBlank(cmd, Tail(allow))

\* func isAllowed(cmd string, allow []string) bool: the loop over allow
RECURSIVE isAllowedLoop(_, _)
isAllowedLoop(cmd, allow) ==
    IF allow = <<>> THEN FALSE
    ELSE IF HasPrefix(cmd, TrimSpace(Head(allow))) THEN TRUE
    ELSE isAllowedLoop(cmd, Tail(allow))

isAllowed(cmd, allow) == isAllowedLoop(TrimSpace(cmd), allow)

\* the allow-list test of Execute that rejects nothing
notAllowed_Never(cmdLine, allowed) == FALSE

\* the allow-list test of Execute without its length guard
notAllowed_NoLengthGuard(cmdLine, allowed) == ~isAllowed(cmdLine, allowed)

\* if len(cfg.Allowed) > 0 && !isAllowed(cmdLine, cfg.Allowed)
notAllowed(cmdLine, allowed) == Len(allowed) > 0 /\ ~isAllowed(cmdLine, allowed)

\* normalizeCmd that trims and leaves the plugin name in place
normalizeCmd_NoStrip(raw) == TrimSpace(raw)

\* func normalizeCmd(raw string) string
normalizeCmd(raw) ==
    LET cmd == TrimSpace(raw)
    IN  IF HasPrefix(ToLower(cmd), pluginName)
        THEN TrimSpace(SubSeq(cmd, Len(pluginName) + 1, Len(cmd)))
        ELSE cmd

(***************************************************************************)
(* Paths (package path/filepath, Unix separator)                           *)
(***************************************************************************)

PathSeparator == "/"

\* the positions of the separators in s, and the k-th of them
SeparatorsOf(s) == {i \in 1..Len(s) : CharAt(s, i) = PathSeparator}
SeparatorAt(seps, k) == CHOOSE i \in seps : Cardinality({j \in seps : j < i}) = k - 1

\* strings.Split(s, "/"): the segments between separators, empty ones kept
Split(s) ==
    Only({[k \in 1..(Cardinality(seps) + 1) |->
              SubSeq(t,
                     IF k = 1 THEN 1 ELSE SeparatorAt(seps, k - 1) + 1,
                     IF k = Cardinality(seps) + 1 THEN Len(t)
                     ELSE SeparatorAt(seps, k) - 1)]
          : t \in {s}, seps \in {SeparatorsOf(s)}})

\* filepath.IsAbs
IsAbs(path) == HasPrefix(path, PathSeparator)

\* the element stack of filepath.Clean: "." and empty elements dropped,
\* ".." removes the element before it, is dropped at the root and kept at
\* the front of a relative path
RECURSIVE CleanStack(_, _, _)
CleanStack(segs, stack, rooted) ==
    Only({IF rest = <<>> THEN st
          ELSE LET seg == Head(rest)
                   next ==
                       IF seg = "" \/ seg = "." THEN st
                       ELSE IF seg = ".."
                            THEN IF st # <<>> /\ st[Len(st)] # ".."
                                 THEN SubSeq(st, 1, Len(st) - 1)
                                 ELSE IF rooted THEN st ELSE Append(st, "..")
                            ELSE Append(st, seg)
               IN  CleanStack(Tail(rest), next, rooted)
          : rest \in {segs}, st \in {stack}})

\* filepath.Clean
Clean(path) ==
    Only({LET rooted == IsAbs(p)
              body   == JoinStr(CleanStack(Split(p), <<>>, rooted), PathSeparator)
          IN  IF rooted THEN PathSeparator \o body
              ELSE IF body = "" THEN "." ELSE body
          : p \in {path}})

\* filepath.Join for two elements: empty elements are ignored, the result
\* is cleaned
Join(a, b) ==
    IF a = "" /\ b = "" THEN ""
    ELSE IF a = "" THEN Clean(b)
    ELSE IF b = "" THEN Clean(a)
    ELSE Clean(a \o PathSeparator \o b)

\* os.Getwd of the plugin process
Getwd == "/w"

\* filepath.Abs
Abs(path) == IF IsAbs(path) THEN Clean(path) ELSE Join(Getwd, path)

\* filepath.Dir of a cleaned absolute path
Dir(path) ==
    Only({Only({IF segs = <<>> THEN PathSeparator
                ELSE PathSeparator \o
                     JoinStr(SubSeq(segs, 1, Len(segs) - 1), PathSeparator)
                : segs \in {CleanStack(Split(p), <<>>, TRUE)}})
          : p \in {path}})

\* filepath.ToSlash on Unix
ToSlash(path) == path

Failed(kind) == [ok |-> FALSE, err |-> kind]
Joined(path) == [ok |-> TRUE, path |-> path]

\* safeJoin with the prefix test made without the trailing separator
safeJoin_NoSeparator(base, name) ==
    LET baseAbs == Abs(base)
        pathAbs == Abs(Join(base, name))
    IN  IF pathAbs # baseAbs /\ ~HasPrefix(pathAbs, baseAbs)
        THEN Failed("PathEscape")
        ELSE Joined(pathAbs)

\* func safeJoin(base, name string) (string, error), utils.go
safeJoin(base, name) ==
    Only({IF pathAbs # baseAbs /\ ~HasPrefix(pathAbs, baseAbs \o PathSeparator)
          THEN Failed("PathEscape")
          ELSE Joined(pathAbs)
          : baseAbs \in {Abs(base)}, pathAbs \in {Abs(Join(base, name))}})

\* func safeJoin(base, rel string) (string, error) of the first revision
safeJoinV0(base, rel) ==
    LET clean == Clean(Join(base, rel))
    IN  IF clean # base /\ ~HasPrefix(clean, base \o PathSeparator)
        THEN Failed("PathEscape")
        ELSE Joined(clean)

(***************************************************************************)
(* The file system (package os)                                            *)
(***************************************************************************)

DirNode        == [kind |-> "dir", exec |-> TRUE, len |-> 0]
\* a file: its mode, its length and its content; content is named by the
\* byte stream it was copied from ("" while nothing has been written)
FileNode(x, n) == [kind |-> "file", exec |-> x, len |-> n, data |-> ""]

Exists(f, path) == path \in DOMAIN f
IsDirAt(f, path) == Exists(f, path) /\ f[path].kind = "dir"

\* path and its ancestors, the root included
RECURSIVE Lineage(_)
Lineage(path) ==
    UNION {IF q = PathSeparator THEN {q} ELSE {q} \cup Lineage(Dir(q)) : q \in {path}}

\* f with the nodes of new added or replaced
WithNodes(f, new) ==
    [q \in (DOMAIN f) \cup (DOMAIN new) |-> IF q \in DOMAIN new THEN new[q] ELSE f[q]]

\* os.MkdirAll(path, 0o755): fails when path or an ancestor is a file,
\* otherwise creates what is missing
MkdirAll(f, path) ==
    LET line == Lineage(path)
    IN  IF \E q \in line : Exists(f, q) /\ f[q].kind # "dir"
        THEN [ok |-> FALSE, fs |-> f]
        ELSE [ok |-> TRUE,
              fs |-> WithNodes(f, [q \in {r \in line : ~Exists(f, r)} |-> DirNode])]

\* every mode taken to hold an execute bit
HasExecBit_Always(perm) == TRUE

\* perm & 0o111 != 0, for the modes the extractors create files with
HasExecBit(perm) == perm = "0o755"

\* an open without O_TRUNC: an existing file keeps its content
OpenTrunc_Keep(f, path, permExec) ==
    IF IsDirAt(f, path) \/ ~IsDirAt(f, Dir(path))
    THEN [ok |-> FALSE, fs |-> f]
    ELSE [ok |-> TRUE,
          fs |-> IF Exists(f, path) THEN f
                 ELSE WithNodes(f, [q \in {path} |-> FileNode(permExec, 0)])]

\* an open that never fails
OpenTrunc_NoFail(f, path, permExec) == [ok |-> TRUE, fs |-> f]

\* os.OpenFile(path, O_CREATE|O_WRONLY|O_TRUNC, perm): fails on a directory
\* or under a missing parent; an existing file keeps its mode and loses its
\* content, a new one gets perm
OpenTrunc(f, path, permExec) ==
    IF IsDirAt(f, path) \/ ~IsDirAt(f, Dir(path))
    THEN [ok |-> FALSE, fs |-> f]
    ELSE [ok |-> TRUE,
          fs |-> WithNodes(f, [q \in {path} |->
                    FileNode(IF Exists(f, path) THEN f[path].exec ELSE permExec, 0)])]

\* a copy that creates the file and writes nothing to it
WriteBytes_Nothing(f, path, n, data) == f

\* Write of the first n bytes of the stream data to the open file at path
WriteBytes(f, path, n, data) ==
    IF Exists(f, path) /\ f[path].kind = "file"
    THEN [f EXCEPT ![path].len = @ + n,
                   ![path].data = IF n = 0 THEN @ ELSE @ \o data]
    ELSE f

\* os.Chmod(path, 0o755), its error ignored by every caller
Chmod755(f, path) ==
    IF Exists(f, path) THEN [f EXCEPT ![path].exec = TRUE] ELSE f

\* isExecutable that finds no file executable
isExecutable_Never(f, path) == FALSE

\* func isExecutable(path string) bool
isExecutable(f, path) == Exists(f, path) /\ f[path].exec

(***************************************************************************)
(* Archive extraction: untarGzSafe (bundle.go), the zip loop of            *)
(* ensureFromOfficialZip and unzipAwsDist of the earlier revisions         *)
(***************************************************************************)

\* 128 << 20 and 512 << 20
maxEntryBytes   == 134217728
maxExtractBytes == 536870912
\* 200 * 1024 * 1024 and 600 * 1024 * 1024
maxUnzipFileBytes  == 209715200
maxUnzipTotalBytes == 629145600

zipPrefix == "aws/dist/"

\* entries one extraction may read before the archive ends
MaxEntries == 5

NoHeader == [name |-> "", type |-> "none", size |-> 0, actual |-> 0, data |-> ""]

\* an archive entry as the reader hands it over: its name, its type ("dir",
\* "reg", or "sym" for symlinks and special files), its declared size, the
\* number of bytes its content stream really holds and the name of that
\* stream
Header(name, type, size, actual) ==
    [name |-> name, type |-> type, size |-> size, actual |-> actual, data |-> "p"]

\* what Init gives every invocation; each entry point sets its own fields
BaseProc ==
    [entry     |-> "none",
     pc        |-> "done",
     dst       |-> "",
     h         |-> NoHeader,
     target    |-> "",
     extracted |-> 0,
     err       |-> "",
     n         |-> 0,
     snapshot  |-> << >>,
     \* ensureFromBundle
     calls        |-> 0,
     validAtStart |-> FALSE,
     url          |-> "",
     tmp          |-> "",
     net          |-> 0,
     perr         |-> "",
     bundle       |-> <<"", "", "">>,
     ld           |-> "",
     \* Execute
     raw      |-> "",
     cfgErr   |-> FALSE,
     allowed  |-> <<>>,
     prepend  |-> <<>>,
     cmdLine  |-> "",
     tested   |-> <<>>,
     helper   |-> FALSE,
     args     |-> <<>>,
     prepares |-> 0,
     fallback  |-> FALSE,
     cancelled |-> FALSE,
     child     |-> "none",
     runs     |-> 0,
     cmd      |-> [path |-> "", argv |-> <<>>, env |-> <<>>],
     started  |-> <<>>,
     runErr   |-> "",
     outStr   |-> "",
     out      |-> "",
     msg      |-> [style |-> "none", text |-> ""]]

Procs == DOMAIN proc

SetProc(p, rec) == proc' = [proc EXCEPT ![p] = rec]

\* the entry points that run one extraction on its own
Standalone(rec) == rec.entry \in {"untar", "zip", "unzip"}

\* where an extraction returns to: its caller's next statement
AfterExtract(rec) ==
    IF rec.entry = "ensureAWS" THEN "ensureaws.extracted"
    ELSE IF Standalone(rec)
       \/ rec.entry \in {"extract", "extract.zip", "extract.twice", "extract.official"}
    THEN "done" ELSE "ensure.extracted"

\* return err from the extraction
ExtractFail(rec, kind) == [rec EXCEPT !.err = kind, !.pc = AfterExtract(rec)]

\* return nil from the extraction
ExtractOk(rec) == [rec EXCEPT !.err = "", !.pc = AfterExtract(rec)]

EntryLimit(entry) == IF entry = "unzip" THEN maxUnzipFileBytes ELSE maxEntryBytes
TotalLimit(entry) == IF entry = "unzip" THEN maxUnzipTotalBytes ELSE maxExtractBytes

\* names an archive may give its entries, relative to the destination
EntryNames == {"a", "a/f", "a/../f", "/a", "../bx"}

\* the headers the reader of an invocation may produce next
EntryShapes(limit) ==
    {<<"reg", 0>>, <<"reg", limit>>, <<"reg", limit + 1>>,
     <<"dir", 0>>, <<"sym", 0>>, <<"sym", limit>>}

\* an extraction on its own reads whatever comes, up to MaxEntries headers;
\* under ensureFromBundle the reader yields the downloaded archive in order
HeaderPool(rec) ==
    LET names == IF rec.entry = "untar" THEN EntryNames
                 ELSE {zipPrefix \o nm : nm \in EntryNames} \cup {"../bx"}
    IN  IF Standalone(rec)
        THEN IF rec.n < MaxEntries
             THEN {Header(nm, sh[1], sh[2], sh[2]) :
                      nm \in names, sh \in EntryShapes(EntryLimit(rec.entry))}
             ELSE {}
        ELSE IF rec.n < Len(call.archive) THEN {call.archive[rec.n + 1]} ELSE {}

\* tr.Next() may return io.EOF
ReaderAtEOF(rec) == IF Standalone(rec) THEN TRUE ELSE rec.n >= Len(call.archive)

\* ---- untarGzSafe ----

\* the per-entry test made against the total limit by mistake
tarEntryTooLarge_WrongLimit(h) == h.size < 0 \/ h.size > maxExtractBytes

\* if h.Size < 0 || h.Size > maxEntryBytes
tarEntryTooLarge(h) == h.size < 0 \/ h.size > maxEntryBytes

\* the total test made on the entry alone, the running total forgotten
tarTotalTooLarge_EntryOnly(extracted, h) == h.size > maxExtractBytes

\* if extracted+h.Size > maxExtractBytes
tarTotalTooLarge(extracted, h) == extracted + h.size > maxExtractBytes

\* a switch that lets every type of entry through
tarSkipped_None(h) == FALSE

\* switch h.Typeflag { case tar.TypeDir, tar.TypeReg: default: continue }
tarSkipped(h) == h.type \notin {"dir", "reg"}

\* the loop of untarGzSafe from tr.Next() to the MkdirAll before OpenFile
UntarHeader(rec, f, h) ==
    Only({LET r      == [rec EXCEPT !.h = h, !.n = @ + 1]
              target == joined.path
          IN  IF tarSkipped(h) THEN [proc |-> r, fs |-> f]
              ELSE IF ~joined.ok THEN [proc |-> ExtractFail(r, joined.err), fs |-> f]
              ELSE IF h.type = "dir"
                   THEN LET m == MkdirAll(f, target)
                        IN  IF m.ok THEN [proc |-> r, fs |-> m.fs]
                            ELSE [proc |-> ExtractFail(r, "IOFailure"), fs |-> f]
              ELSE IF tarEntryTooLarge(h)
                   THEN [proc |-> ExtractFail(r, "EntryTooLarge"), fs |-> f]
              ELSE IF tarTotalTooLarge(rec.extracted, h)
                   THEN [proc |-> ExtractFail(r, "TotalTooLarge"), fs |-> f]
              ELSE LET m == MkdirAll(f, Dir(target))
                   IN  IF m.ok
                       THEN [proc |-> [r EXCEPT !.target = target, !.pc = "untar.open"],
                             fs |-> m.fs]
                       ELSE [proc |-> ExtractFail(r, "IOFailure"), fs |-> f]
          : joined \in {safeJoin(rec.dst, h.name)}})

\* tr.Next(): io.EOF ends the extraction, a header starts an iteration
UntarNext(p) ==
    /\ proc[p].pc = "untar.next"
    /\ \/ /\ ReaderAtEOF(proc[p])
          /\ SetProc(p, ExtractOk(proc[p]))
          /\ UNCHANGED fs
       \/ /\ \E h \in HeaderPool(proc[p]) :
                \E step \in {UntarHeader(proc[p], fs, h)} :
                    /\ SetProc(p, step.proc)
                    /\ fs' = step.fs
    /\ UNCHANGED <<call, ret>>

\* os.OpenFile(target, O_CREATE|O_WRONLY|O_TRUNC, 0o644)
UntarOpen(p) ==
    /\ proc[p].pc = "untar.open"
    /\ LET o == OpenTrunc(fs, proc[p].target, HasExecBit("0o644"))
       IN  IF o.ok
           THEN /\ fs' = o.fs
                /\ SetProc(p, [proc[p] EXCEPT !.pc = "untar.copy"])
           ELSE /\ fs' = fs
                /\ SetProc(p, ExtractFail(proc[p], "IOFailure"))
    /\ UNCHANGED <<call, ret>>

Min(a, b) == IF a < b THEN a ELSE b

\* io.CopyN(out, tr, h.Size), out.Close() and extracted += h.Size; a stream
\* that ends early makes the tar reader report io.ErrUnexpectedEOF
UntarCopy(p) ==
    /\ proc[p].pc = "untar.copy"
    /\ LET h == proc[p].h
       IN  /\ fs' = WriteBytes(fs, proc[p].target, Min(h.size, h.actual), h.data)
           /\ IF h.actual < h.size
              THEN SetProc(p, ExtractFail(proc[p], "IOFailure"))
              ELSE SetProc(p, [proc[p] EXCEPT !.extracted = @ + h.size,
                                              !.pc = "untar.next"])
    /\ UNCHANGED <<call, ret>>

\* ---- the zip loop of ensureFromOfficialZip ----

ZipHeader(rec, f, h) ==
    LET r      == [rec EXCEPT !.h = h, !.n = @ + 1]
        name   == ToSlash(h.name)
        rel    == TrimPrefix(name, zipPrefix)
        want   == h.size
        joined == safeJoin(rec.dst, rel)
        target == joined.path
    IN  IF ~HasPrefix(name, zipPrefix) THEN [proc |-> r, fs |-> f]
        ELSE IF h.type = "sym" THEN [proc |-> r, fs |-> f]
        ELSE IF want > maxEntryBytes
             THEN [proc |-> ExtractFail(r, "EntryTooLarge"), fs |-> f]
        ELSE IF rec.extracted + want > maxExtractBytes
             THEN [proc |-> ExtractFail(r, "TotalTooLarge"), fs |-> f]
        ELSE IF ~joined.ok THEN [proc |-> ExtractFail(r, joined.err), fs |-> f]
        ELSE IF h.type = "dir"
             THEN LET m == MkdirAll(f, target)
                  IN  IF m.ok THEN [proc |-> r, fs |-> m.fs]
                      ELSE [proc |-> ExtractFail(r, "IOFailure"), fs |-> f]
        ELSE LET m == MkdirAll(f, Dir(target))
             IN  IF m.ok
                 THEN [proc |-> [r EXCEPT !.target = target, !.pc = "zip.open"],
                       fs |-> m.fs]
                 ELSE [proc |-> ExtractFail(r, "IOFailure"), fs |-> f]

\* for _, f := range r.File: the loop ends or takes the next entry
ZipNext(p) ==
    /\ proc[p].pc = "zip.next"
    /\ \/ /\ ReaderAtEOF(proc[p])
          /\ SetProc(p, ExtractOk(proc[p]))
          /\ UNCHANGED fs
       \/ /\ \E h \in HeaderPool(proc[p]) :
                LET step == ZipHeader(proc[p], fs, h)
                IN  /\ SetProc(p, step.proc)
                    /\ fs' = step.fs
    /\ UNCHANGED <<call, ret>>

\* f.Open() and os.OpenFile(dstPath, O_CREATE|O_WRONLY|O_TRUNC, 0o644)
ZipOpen(p) ==
    /\ proc[p].pc = "zip.open"
    /\ LET o == OpenTrunc(fs, proc[p].target, HasExecBit("0o644"))
       IN  IF o.ok
           THEN /\ fs' = o.fs
                /\ SetProc(p, [proc[p] EXCEPT !.pc = "zip.copy"])
           ELSE /\ fs' = fs
                /\ SetProc(p, ExtractFail(proc[p], "IOFailure"))
    /\ UNCHANGED <<call, ret>>

\* io.CopyN(out, rc, want), the two Close calls and extracted += want; the
\* zip reader reports io.ErrUnexpectedEOF when the content is shorter than
\* declared
ZipCopy(p) ==
    /\ proc[p].pc = "zip.copy"
    /\ LET h == proc[p].h
       IN  /\ fs' = WriteBytes(fs, proc[p].target, Min(h.size, h.actual), h.data)
           /\ IF h.actual < h.size
              THEN SetProc(p, ExtractFail(proc[p], "IOFailure"))
              ELSE SetProc(p, [proc[p] EXCEPT !.extracted = @ + h.size,
                                              !.pc = "zip.next"])
    /\ UNCHANGED <<call, ret>>

\* ---- unzipAwsDist (first revision) ----

UnzipHeader(rec, f, h) ==
    LET name   == ToSlash(h.name)
        total  == rec.extracted + h.size
        r      == [rec EXCEPT !.h = h, !.n = @ + 1]
        rt     == [r EXCEPT !.extracted = total]
        rel    == TrimPrefix(name, zipPrefix)
        joined == safeJoinV0(rec.dst, rel)
        target == joined.path
    IN  IF ~HasPrefix(name, zipPrefix) THEN [proc |-> r, fs |-> f]
        ELSE IF h.size > maxUnzipFileBytes
             THEN [proc |-> ExtractFail(r, "EntryTooLarge"), fs |-> f]
        ELSE IF total > maxUnzipTotalBytes
             THEN [proc |-> ExtractFail(rt, "TotalTooLarge"), fs |-> f]
        ELSE IF ~joined.ok THEN [proc |-> ExtractFail(rt, joined.err), fs |-> f]
        ELSE IF h.type = "dir"
             THEN LET m == MkdirAll(f, target)
                  IN  IF m.ok THEN [proc |-> rt, fs |-> m.fs]
                      ELSE [proc |-> ExtractFail(rt, "IOFailure"), fs |-> f]
        ELSE IF h.type = "sym" THEN [proc |-> rt, fs |-> f]
        ELSE LET m == MkdirAll(f, Dir(target))
             IN  IF m.ok
                 THEN [proc |-> [rt EXCEPT !.target = target, !.pc = "unzip.open"],
                       fs |-> m.fs]
                 ELSE [proc |-> ExtractFail(rt, "IOFailure"), fs |-> f]

\* for _, f := range r.File
UnzipNext(p) ==
    /\ proc[p].pc = "unzip.next"
    /\ \/ /\ ReaderAtEOF(proc[p])
          /\ SetProc(p, ExtractOk(proc[p]))
          /\ UNCHANGED fs
       \/ /\ \E h \in HeaderPool(proc[p]) :
                LET step == UnzipHeader(proc[p], fs, h)
                IN  /\ SetProc(p, step.proc)
                    /\ fs' = step.fs
    /\ UNCHANGED <<call, ret>>

\* f.Open() and, inside the closure, os.OpenFile(dstPath, ..., 0o755): a
\* failure to open the destination only leaves the closure, and the loop
\* goes on with the next entry
UnzipOpen(p) ==
    /\ proc[p].pc = "unzip.open"
    /\ LET o == OpenTrunc(fs, proc[p].target, HasExecBit("0o755"))
       IN  IF o.ok
           THEN /\ fs' = o.fs
                /\ SetProc(p, [proc[p] EXCEPT !.pc = "unzip.copy"])
           ELSE /\ fs' = fs
                /\ SetProc(p, [proc[p] EXCEPT !.pc = "unzip.next"])
    /\ UNCHANGED <<call, ret>>

\* io.Copy(out, &io.LimitedReader{R: rc, N: size}), its error dropped
UnzipCopy(p) ==
    /\ proc[p].pc = "unzip.copy"
    /\ LET h == proc[p].h
       IN  /\ fs' = WriteBytes(fs, proc[p].target, Min(h.size, h.actual), h.data)
           /\ SetProc(p, [proc[p] EXCEPT !.pc = "unzip.next"])
    /\ UNCHANGED <<call, ret>>

\* ---- one extraction into a destination root ----

Roots == {"/r/b", "/r"}

\* the root directory and the destination, which the callers create with
\* MkdirAll before they extract
RootFs(dst) == MkdirAll([q \in {PathSeparator} |-> DirNode], dst).fs

InitExtract ==
    /\ call = NoCall
    /\ ret = Pending
    /\ \E dst \in Roots, e \in {"untar", "zip", "unzip"} :
          /\ fs = RootFs(dst)
          /\ proc = [q \in {1} |->
                        [BaseProc EXCEPT !.entry = e, !.pc = e \o ".next", !.dst = dst]]

NextExtract ==
    \/ \E p \in Procs : UntarNext(p)
    \/ \E p \in Procs : UntarOpen(p)
    \/ \E p \in Procs : UntarCopy(p)
    \/ \E p \in Procs : ZipNext(p)
    \/ \E p \in Procs : ZipOpen(p)
    \/ \E p \in Procs : ZipCopy(p)
    \/ \E p \in Procs : UnzipNext(p)
    \/ \E p \in Procs : UnzipOpen(p)
    \/ \E p \in Procs : UnzipCopy(p)

SpecExtract == InitExtract /\ [][NextExtract]_vars

(***************************************************************************)
(* Dependency Resolver: ensureFromBundle (bundle.go)                       *)
(***************************************************************************)

\* depsDir(): the plugin executable's path with "_deps" appended
depsRoot   == "/x_deps"
bundleRoot == Join(depsRoot, "bundle")
distDir    == Join(Join(bundleRoot, "awscli"), "dist")
glibcDir   == Join(bundleRoot, "glibc")
awsBin     == Join(distDir, "aws")

\* os.TempDir()
TempDir == "/t"

\* the two loaders ensureFromBundle and resolveLoaderPath look for
LoaderCandidates ==
    <<Join(glibcDir, "ld-linux-x86-64.so.2"), Join(glibcDir, "ld-linux-aarch64.so.1")>>

\* the RuntimeBundle a successful call returns, and the zero value of a
\* failed one
BundleOk == <<awsBin, glibcDir, distDir>>
NoBundle == <<"", "", "">>

\* the cache is populated: the binary exists with an execute bit and the
\* glibc directory exists
Populated(f) ==
    /\ awsBin \in DOMAIN f
    /\ f[awsBin].exec
    /\ glibcDir \in DOMAIN f

\* var defaultBundleURL: a map read with an arch it may not hold
defaultBundleURL(arch) ==
    IF arch = "amd64" THEN "https://h/aws_linux_amd64.tar.gz" ELSE ""

\* the lookup that prefers the built-in default to the override
bundleURL_DefaultFirst(arch, override) ==
    IF defaultBundleURL(arch) # "" THEN defaultBundleURL(arch) ELSE override

\* url := os.Getenv("AWSCLI_TARBALL_URL_" + strings.ToUpper(arch));
\* if url == "" { url = defaultBundleURL[arch] }
bundleURL(arch, override) ==
    IF override # "" THEN override ELSE defaultBundleURL(arch)

\* runtime.GOARCH and the value of AWSCLI_TARBALL_URL_<ARCH>: amd64 and
\* arm64 without an override
Platforms == {[arch |-> a, override |-> ""] : a \in {"amd64", "arm64"}}

\* entries of a served bundle
AwsEntry    == Header("awscli/dist/aws", "reg", 1, 1)
LoaderEntry == Header("glibc/ld-linux-x86-64.so.2", "reg", 1, 1)
EscapeEntry == Header("../x", "reg", 1, 1)

BundleHeaders == {AwsEntry, LoaderEntry, EscapeEntry}

\* entries a served bundle holds at most
MaxBundleEntries == 2

BundleArchives == SeqsUpTo(BundleHeaders, MaxBundleEntries)

\* os.TempDir()/awsbundle-<time.Now().UnixNano()>.tar.gz: two callers may
\* read the same clock value
TmpNames == {Join(TempDir, "awsbundle-1.tar.gz"), Join(TempDir, "awsbundle-2.tar.gz")}

\* os.Remove(path), its error ignored
Remove(f, path) == [q \in (DOMAIN f) \ {path} |-> f[q]]

\* return from ensureFromBundle to the caller's next statement
EnsureDone(rec, perr, bundle) ==
    [rec EXCEPT !.perr = perr, !.bundle = bundle,
                !.pc = IF rec.entry = "execute" THEN "exec.prepared" ELSE "done"]

\* a caller whose first call has returned calls a second time
EnsureCall(p) ==
    /\ proc[p].entry = "ensure"
    /\ proc[p].pc = "done"
    /\ proc[p].calls = 1
    /\ SetProc(p, [proc[p] EXCEPT !.pc = "ensure.start", !.calls = @ + 1,
                                  !.h = NoHeader, !.target = "", !.extracted = 0,
                                  !.err = "", !.n = 0, !.tmp = "", !.url = "",
                                  !.perr = "", !.bundle = NoBundle])
    /\ UNCHANGED <<call, ret, fs>>

\* if isExecutable(awsBin); validAtStart remembers whether the cache was
\* populated when the call began
EnsureStart(p) ==
    /\ proc[p].pc = "ensure.start"
    /\ SetProc(p, [proc[p] EXCEPT
            !.validAtStart = Populated(fs),
            !.pc = IF isExecutable(fs, awsBin) THEN "ensure.glibc" ELSE "ensure.mkdir"])
    /\ UNCHANGED <<call, ret, fs>>

\* if _, err := os.Stat(glibcDir); err == nil { return awsBin, glibcDir, distDir, nil }
EnsureStatGlibc(p) ==
    /\ proc[p].pc = "ensure.glibc"
    /\ IF Exists(fs, glibcDir)
       THEN SetProc(p, EnsureDone(proc[p], "", BundleOk))
       ELSE SetProc(p, [proc[p] EXCEPT !.pc = "ensure.mkdir"])
    /\ UNCHANGED <<call, ret, fs>>

\* os.MkdirAll(bundleRoot, 0o755), the URL lookup and the temporary name
EnsureMkdir(p) ==
    /\ proc[p].pc = "ensure.mkdir"
    /\ LET m == MkdirAll(fs, bundleRoot)
       IN  IF ~m.ok
           THEN /\ fs' = fs
                /\ SetProc(p, EnsureDone(proc[p], "IOFailure", NoBundle))
           ELSE /\ fs' = m.fs
                /\ \E url \in {bundleURL(call.arch, call.override)} :
                      IF url = ""
                      THEN SetProc(p, EnsureDone(proc[p], "NoURLConfigured", NoBundle))
                      ELSE \E t \in TmpNames :
                              SetProc(p, [proc[p] EXCEPT !.url = url, !.tmp = t,
                                                         !.pc = "ensure.download"])
    /\ UNCHANGED <<call, ret>>

\* httpGetToFile(ctx, url, tmp): the request fails or the status is not 200
\* (no file), or the file is created and the copy fails part-way, or the
\* whole archive is written, which a canceled context prevents; the deferred
\* os.Remove(tmp) is registered only after a successful download
EnsureDownload(p) ==
    /\ proc[p].pc = "ensure.download"
    /\ LET r == [proc[p] EXCEPT !.net = @ + 1]
           o == OpenTrunc(fs, proc[p].tmp, FALSE)
       IN  \/ /\ fs' = fs
              /\ SetProc(p, EnsureDone(r, "DownloadFailed", NoBundle))
           \/ /\ fs' = o.fs
              /\ SetProc(p, EnsureDone(r, "DownloadFailed", NoBundle))
           \/ /\ o.ok
              /\ ~proc[p].cancelled
              /\ fs' = WriteBytes(o.fs, proc[p].tmp, 1, "tgz")
              /\ SetProc(p, [r EXCEPT !.pc = "untar.begin"])
    /\ UNCHANGED <<call, ret>>

\* untarGzSafe(tmp, bundleRoot): os.Open(src) and the readers
UntarBegin(p) ==
    /\ proc[p].pc = "untar.begin"
    /\ LET r == [proc[p] EXCEPT !.dst = bundleRoot, !.extracted = 0, !.n = 0,
                                !.h = NoHeader, !.target = "", !.err = ""]
       IN  IF Exists(fs, proc[p].tmp)
           THEN SetProc(p, [r EXCEPT !.pc = "untar.next"])
           ELSE SetProc(p, ExtractFail(r, "IOFailure"))
    /\ UNCHANGED <<call, ret, fs>>

\* the extraction has returned: on error the deferred os.Remove(tmp) runs
\* and the call fails, otherwise _ = os.Chmod(awsBin, 0o755)
EnsureExtracted(p) ==
    /\ proc[p].pc = "ensure.extracted"
    /\ IF proc[p].err # ""
       THEN /\ fs' = Remove(fs, proc[p].tmp)
            /\ SetProc(p, EnsureDone(proc[p], "ExtractFailed", NoBundle))
       ELSE /\ fs' = Chmod755(fs, awsBin)
            /\ SetProc(p, [proc[p] EXCEPT !.pc = "ensure.chmodld"])
    /\ UNCHANGED <<call, ret>>

\* for _, ld := range candidates: os.Stat(ld) and _ = os.Chmod(ld, 0o755)
EnsureChmodLoaders(p) ==
    /\ proc[p].pc = "ensure.chmodld"
    /\ fs' = Chmod755(Chmod755(fs, LoaderCandidates[1]), LoaderCandidates[2])
    /\ SetProc(p, [proc[p] EXCEPT !.pc = "ensure.ret"])
    /\ UNCHANGED <<call, ret>>

\* return awsBin, glibcDir, distDir, nil, with the deferred os.Remove(tmp)
EnsureReturn(p) ==
    /\ proc[p].pc = "ensure.ret"
    /\ fs' = Remove(fs, proc[p].tmp)
    /\ SetProc(p, EnsureDone(proc[p], "", BundleOk))
    /\ UNCHANGED <<call, ret>>

\* ---- concurrent callers on one cache directory ----

Callers == {1, 2}

\* the root, the temporary directory and no cache yet
EmptyCacheFs == MkdirAll([q \in {PathSeparator} |-> DirNode], TempDir).fs

InitEnsure ==
    /\ call \in {[fn |-> "ensureFromBundle", arch |-> g.arch, override |-> g.override,
                  archive |-> a] :
                    g \in Platforms, a \in BundleArchives}
    /\ ret = Pending
    /\ fs = EmptyCacheFs
    /\ proc = [q \in Callers |->
                  [BaseProc EXCEPT !.entry = "ensure", !.pc = "ensure.start", !.calls = 1]]

NextEnsure ==
    \/ \E p \in Procs : EnsureCall(p)
    \/ \E p \in Procs : EnsureStart(p)
    \/ \E p \in Procs : EnsureStatGlibc(p)
    \/ \E p \in Procs : EnsureMkdir(p)
    \/ \E p \in Procs : EnsureDownload(p)
    \/ \E p \in Procs : UntarBegin(p)
    \/ \E p \in Procs : UntarNext(p)
    \/ \E p \in Procs : UntarOpen(p)
    \/ \E p \in Procs : UntarCopy(p)
    \/ \E p \in Procs : EnsureExtracted(p)
    \/ \E p \in Procs : EnsureChmodLoaders(p)
    \/ \E p \in Procs : EnsureReturn(p)

SpecEnsure == InitEnsure /\ [][NextEnsure]_vars

(***************************************************************************)
(* Environment of the child process: buildEnv (utils.go)                   *)
(***************************************************************************)

\* "KEY=value", the form of the entries of os.Environ() and of cmd.Env
EnvEntry(k, v) == k \o "=" \o v

\* position of the first "=" of an entry, 0 if it has none
RECURSIVE EqualsAt(_, _)
EqualsAt(entry, i) ==
    IF i > Len(entry) THEN 0
    ELSE IF CharAt(entry, i) = "=" THEN i
    ELSE EqualsAt(entry, i + 1)

EnvKey(entry)   == SubSeq(entry, 1, EqualsAt(entry, 1) - 1)
EnvValue(entry) == SubSeq(entry, EqualsAt(entry, 1) + 1, Len(entry))

\* the entries of a map[string]string in the order the range statement
\* happens to visit its keys
MapEntries(m, order) == [i \in 1..Len(order) |-> EnvEntry(order[i], m[order[i]])]

\* the orders in which a range statement may visit the keys of m
RangeOrders(m) ==
    {o \in SeqsUpTo(DOMAIN m, Cardinality(DOMAIN m)) :
        Len(o) = Cardinality(DOMAIN m) /\ {o[i] : i \in 1..Len(o)} = DOMAIN m}

\* buildEnv with the configured entries put in front of the inherited ones
buildEnv_ConfigFirst(environ, defaultRegion, cfgEnv, order, ldPath) ==
    MapEntries(cfgEnv, order) \o environ \o <<"HOME=/tmp", "AWS_PAGER=">>
        \o (IF defaultRegion # "" THEN <<"AWS_DEFAULT_REGION=" \o defaultRegion>> ELSE <<>>)
        \o (IF ldPath # "" THEN <<"LD_LIBRARY_PATH=" \o ldPath>> ELSE <<>>)

\* func buildEnv(cfg Config, ldPath string) []string
buildEnv(environ, defaultRegion, cfgEnv, order, ldPath) ==
    environ \o <<"HOME=/tmp", "AWS_PAGER=">>
        \o (IF defaultRegion # "" THEN <<"AWS_DEFAULT_REGION=" \o defaultRegion>> ELSE <<>>)
        \o (IF ldPath # "" THEN <<"LD_LIBRARY_PATH=" \o ldPath>> ELSE <<>>)
        \o MapEntries(cfgEnv, order)

\* what the child reads for key k when cmd.Env = env: os/exec keeps, of the
\* entries with the same key, the last one; <<>> when the key is not set
RECURSIVE ChildEnv(_, _)
ChildEnv(env, k) ==
    IF env = <<>> THEN <<>>
    ELSE IF EnvKey(env[Len(env)]) = k THEN <<EnvValue(env[Len(env)])>>
    ELSE ChildEnv(SubSeq(env, 1, Len(env) - 1), k)

\* ---- the inherited environment ----

EnvVars == {"HOME", "AWS_PAGER", "LD_LIBRARY_PATH", "AWS_DEFAULT_REGION", "X"}

\* the variables the plugin process may have inherited, in a fixed order
EnvVarOrder == <<"HOME", "AWS_PAGER", "LD_LIBRARY_PATH", "AWS_DEFAULT_REGION", "X">>

\* os.Environ() of a process that inherited the variables of set
Environ(set) ==
    SelectSeq([i \in 1..Len(EnvVarOrder) |-> EnvEntry(EnvVarOrder[i], "inh")],
              LAMBDA e : EnvKey(e) \in set)

(***************************************************************************)
(* Orchestrator: Execute (executor.go) with the helpers of utils.go        *)
(***************************************************************************)

\* github.com/google/shlex Split, for input without backslashes and "#":
\* white space separates tokens, quotes group, an unclosed quote is an error
RECURSIVE ShlexScan(_, _, _, _, _)
ShlexScan(s, i, cur, state, acc) ==
    IF i > Len(s)
    THEN IF state \in {"squote", "dquote"} THEN [ok |-> FALSE, args |-> <<>>]
         ELSE IF state = "word" THEN [ok |-> TRUE, args |-> Append(acc, cur)]
         ELSE [ok |-> TRUE, args |-> acc]
    ELSE LET c == CharAt(s, i)
         IN  CASE state = "start" ->
                    IF IsSpace(c) THEN ShlexScan(s, i + 1, "", "start", acc)
                    ELSE IF c = "'" THEN ShlexScan(s, i + 1, "", "squote", acc)
                    ELSE IF c = "\"" THEN ShlexScan(s, i + 1, "", "dquote", acc)
                    ELSE ShlexScan(s, i + 1, c, "word", acc)
               [] state = "word" ->
                    IF IsSpace(c) THEN ShlexScan(s, i + 1, "", "start", Append(acc, cur))
                    ELSE IF c = "'" THEN ShlexScan(s, i + 1, cur, "squote", acc)
                    ELSE IF c = "\"" THEN ShlexScan(s, i + 1, cur, "dquote", acc)
                    ELSE ShlexScan(s, i + 1, cur \o c, "word", acc)
               [] state = "squote" ->
                    IF c = "'" THEN ShlexScan(s, i + 1, cur, "word", acc)
                    ELSE ShlexScan(s, i + 1, cur \o c, "squote", acc)
               [] OTHER ->
                    IF c = "\"" THEN ShlexScan(s, i + 1, cur, "word", acc)
                    ELSE ShlexScan(s, i + 1, cur \o c, "dquote", acc)

ShlexSplit(s) == ShlexScan(s, 1, "", "start", <<>>)

\* the loader files a glibc directory may hold, in the lexical order in
\* which filepath.Glob(glibcDir/ld-linux-*.so.*) lists them
GlobLoaderNames ==
    <<"ld-linux-aarch64.so.1", "ld-linux-armhf.so.3", "ld-linux-x86-64.so.2">>

\* filepath.Glob(filepath.Join(glibcDir, "ld-linux-*.so.*"))
GlobLoaders(f, dir) ==
    SelectSeq([i \in 1..Len(GlobLoaderNames) |-> Join(dir, GlobLoaderNames[i])],
              LAMBDA q : Exists(f, q))

\* func resolveLoaderPath(glibcDir string) string, with the file system its
\* os.Chmod leaves behind
resolveLoaderPath(f, dir) ==
    LET cands == GlobLoaders(f, dir)
    IN  IF dir = "" THEN [ld |-> "", fs |-> f]
        ELSE IF isExecutable(f, LoaderCandidates[1]) THEN [ld |-> LoaderCandidates[1], fs |-> f]
        ELSE IF isExecutable(f, LoaderCandidates[2]) THEN [ld |-> LoaderCandidates[2], fs |-> f]
        ELSE IF Len(cands) > 0 THEN [ld |-> cands[1], fs |-> Chmod755(f, cands[1])]
        ELSE [ld |-> "", fs |-> f]

\* buildLDPath with the two directories in the other order
buildLDPath_DistFirst(glibc, dist) ==
    CASE glibc # "" /\ dist # "" -> dist \o ":" \o glibc
      [] glibc # "" -> glibc
      [] dist # "" -> dist
      [] OTHER -> ""

\* func buildLDPath(glibcDir, distDir string) string
buildLDPath(glibc, dist) ==
    CASE glibc # "" /\ dist # "" -> glibc \o ":" \o dist
      [] glibc # "" -> glibc
      [] dist # "" -> dist
      [] OTHER -> ""

\* the commands Execute answers with the interactive help
HelpCommands == {"", pluginName, pluginName \o " help", "help"}

\* the commands Execute answers with the full help text
FullHelpCommands ==
    {pluginName \o " help full", "help full", pluginName \o " help examples", "help examples"}

\* msg that drops its text
msg_Empty(s) == [style |-> "plaintext", text |-> ""]

\* func msg(s string) executor.ExecuteOutput: api.NewPlaintextMessage(s, true)
msg(s) == [style |-> "plaintext", text |-> s]

\* api.NewCodeBlockMessage(s, true)
NewCodeBlockMessage(s) == [style |-> "codeblock", text |-> s]

\* the message of e.Help, and the sections of the reboot picker
HelpMessage == [style |-> "help", text |-> "AWS CLI executor"]
PickerMessage == [style |-> "sections", text |-> "Select instance to reboot"]

fullHelpText == "aws help text"

\* the texts of the errors of yaml.Unmarshal and shlex.Split
YAMLErrorText == "yaml: unmarshal errors"
ShlexErrorText == "EOF found when expecting closing quote"

\* the errors cmd.CombinedOutput returns
ExitErrorText == "exit status 1"
KilledErrorText == "signal: killed"
LaunchErrorText(rec) ==
    IF rec.cancelled THEN "context canceled" ELSE "fork/exec: no such file or directory"

\* fmt.Sprintf("%q", s) for the strings of the model
Quote(s) == "\"" \o s \o "\""

\* the DBG line of a failed run, of which the loader part is kept
DebugLine(rec) == "DBG useLoader=" \o (IF rec.ld # "" THEN "true" ELSE "false")

\* the message of a failed run without its closing ERROR line
errorStyle_NoErrorLine(rec) ==
    msg(DebugLine(rec) \o "\n" \o rec.outStr)

\* the message of a failed run: the DBG line, the captured output if there
\* is any, and the ERROR line
errorStyle(rec) ==
    IF rec.outStr = ""
    THEN msg(DebugLine(rec) \o "\nERROR: " \o rec.runErr)
    ELSE msg(DebugLine(rec) \o "\n" \o rec.outStr \o "\nERROR: " \o rec.runErr)

\* the message of a run that ended without error
successStyle(rec) ==
    NewCodeBlockMessage(IF rec.outStr = "" THEN "(no output)" ELSE rec.outStr)

\* the ExecuteOutput of each return of Execute
Render(rec, kind) ==
    CASE kind = "ConfigError"        -> msg(YAMLErrorText)
      [] kind = "Help"               -> HelpMessage
      [] kind = "FullHelp"           -> NewCodeBlockMessage(fullHelpText)
      [] kind = "Rejected"           -> msg("Command not allowed: " \o Quote(rec.cmdLine))
      [] kind = "InvalidArgs"        -> msg("invalid arguments: " \o ShlexErrorText)
      [] kind = "ProvisioningFailed" -> msg("failed to prepare aws cli: " \o rec.perr)
      [] kind = "ListFailed"         ->
            msg("failed to list instances: describe-instances: " \o rec.runErr
                \o "; output: " \o rec.outStr)
      [] kind = "NoInstances"        -> msg("no instances found")
      [] kind = "Picker"             -> PickerMessage
      [] kind = "ExecError"          -> errorStyle(rec)
      [] OTHER                       -> successStyle(rec)

\* return from Execute with a message of the given kind
ExecReturn(rec, kind) ==
    [rec EXCEPT !.out = kind, !.msg = Render(rec, kind), !.pc = "done"]

\* the arguments listEC2InstanceIDs runs the binary with
DescribeInstancesArgs ==
    <<"ec2", "describe-instances", "--query",
      "Reservations[].Instances[].InstanceId", "--output", "text">>

\* mergeExecutorConfigs, of which only the outcome is kept: a YAML error, or
\* the merged allowed and prependArgs; then the help routing
ExecStart(p) ==
    /\ proc[p].pc = "exec.start"
    /\ LET raw   == TrimSpace(proc[p].raw)
           lower == ToLower(raw)
       IN  \/ SetProc(p, ExecReturn([proc[p] EXCEPT !.cfgErr = TRUE], "ConfigError"))
           \/ IF lower \in HelpCommands THEN SetProc(p, ExecReturn(proc[p], "Help"))
              ELSE IF lower \in FullHelpCommands
                   THEN SetProc(p, ExecReturn(proc[p], "FullHelp"))
              ELSE SetProc(p, [proc[p] EXCEPT !.raw = raw, !.pc = "exec.check"])
    /\ UNCHANGED <<call, ret, fs>>

\* cmdLine := normalizeCmd(raw) and the allow-list check; tested remembers
\* the string handed to isAllowed
ExecCheck(p) ==
    /\ proc[p].pc = "exec.check"
    /\ LET cmdLine == normalizeCmd(proc[p].raw)
           r       == [proc[p] EXCEPT
                          !.cmdLine = cmdLine,
                          !.tested = IF Len(proc[p].allowed) > 0
                                     THEN <<cmdLine>> ELSE <<>>]
       IN  IF notAllowed(cmdLine, proc[p].allowed)
           THEN SetProc(p, ExecReturn(r, "Rejected"))
           ELSE SetProc(p, [r EXCEPT !.pc = "exec.prepend"])
    /\ UNCHANGED <<call, ret, fs>>

\* the prependArgs, the helper test, shlex.Split and the call of prepareAws
ExecPrepend(p) ==
    /\ proc[p].pc = "exec.prepend"
    /\ LET cmdLine == IF Len(proc[p].prepend) > 0
                      THEN JoinStr(Append(proc[p].prepend, proc[p].cmdLine), " ")
                      ELSE proc[p].cmdLine
           helper  == HasPrefix(cmdLine, "helper reboot-ec2")
           split   == ShlexSplit(cmdLine)
           r       == [proc[p] EXCEPT !.cmdLine = cmdLine, !.helper = helper]
       IN  IF helper
           THEN SetProc(p, [r EXCEPT !.prepares = @ + 1, !.pc = "ensure.start"])
           ELSE IF ~split.ok THEN SetProc(p, ExecReturn(r, "InvalidArgs"))
           ELSE SetProc(p, [r EXCEPT !.args = split.args, !.prepares = @ + 1,
                                     !.pc = "ensure.start"])
    /\ UNCHANGED <<call, ret, fs>>

\* a second source tried after every failure, the fallback's included
fallsBack_Again(rec) == rec.fallback /\ rec.prepares <= 2

\* if err != nil { ... = ensureFromOfficialZip(ctx) } of the revision of
\* Execute that has the official zip as a second source
fallsBack(rec) == rec.fallback /\ rec.prepares = 1

\* prepareAws has returned: its error ends the request, or sends the
\* revision with a second source to it; otherwise resolveLoaderPath picks
\* the loader
ExecPrepared(p) ==
    /\ proc[p].pc = "exec.prepared"
    /\ IF proc[p].perr # ""
       THEN /\ IF fallsBack(proc[p])
               THEN SetProc(p, [proc[p] EXCEPT !.prepares = @ + 1, !.pc = "zip.ensure"])
               ELSE SetProc(p, ExecReturn(proc[p], "ProvisioningFailed"))
            /\ fs' = fs
       ELSE LET res == resolveLoaderPath(fs, proc[p].bundle[2])
            IN  /\ SetProc(p, [proc[p] EXCEPT !.ld = res.ld, !.pc = "exec.run"])
                /\ fs' = res.fs
    /\ UNCHANGED <<call, ret>>

\* the environment the plugin process inherited, and a configuration with
\* neither defaultRegion nor env
PluginEnviron == Environ({"HOME", "X"})
NoConfigEnv   == [k \in {} |-> ""]

\* runAWS that hands the child no arguments of the request
runAWS_NoArgs(ld, bin, libraryPath, args, env) ==
    IF ld # ""
    THEN [path |-> ld, argv |-> <<"--library-path", libraryPath, bin>>, env |-> env]
    ELSE [path |-> bin, argv |-> <<>>, env |-> env]

\* func runAWS: the exec.Cmd of the loader with --library-path, or of the
\* binary itself
runAWS(ld, bin, libraryPath, args, env) ==
    IF ld # ""
    THEN [path |-> ld, argv |-> <<"--library-path", libraryPath, bin>> \o args, env |-> env]
    ELSE [path |-> bin, argv |-> args, env |-> env]

\* buildLDPath, buildEnv and runAWS up to the start of the child; a program
\* that is missing or has no execute bit is a launch failure and no process
\* starts, and exec.CommandContext starts none once the context is canceled
ExecRun(p) ==
    /\ proc[p].pc = "exec.run"
    /\ LET rec    == proc[p]
           args   == IF rec.helper THEN DescribeInstancesArgs ELSE rec.args
           ldPath == buildLDPath(rec.bundle[2], rec.bundle[3])
           env    == buildEnv(PluginEnviron, "", NoConfigEnv, <<>>, ldPath)
           cmd    == runAWS(rec.ld, rec.bundle[1], ldPath, args, env)
           r      == [rec EXCEPT !.runs = @ + 1, !.cmd = cmd]
       IN  IF ~rec.cancelled /\ isExecutable(fs, cmd.path) /\ ~IsDirAt(fs, cmd.path)
           THEN SetProc(p, [r EXCEPT !.started = Append(@, cmd), !.child = "running",
                                     !.pc = "exec.wait"])
           ELSE SetProc(p, ExecReturn([r EXCEPT !.runErr = LaunchErrorText(rec)],
                                      IF rec.helper THEN "ListFailed" ELSE "ExecError"))
    /\ UNCHANGED <<call, ret, fs>>

\* a child started with exec.Command, which no context ends
KilledOnCancel_PlainCommand(rec) == FALSE

\* exec.CommandContext(ctx, ...): the child is killed once ctx is done
KilledOnCancel(rec) == rec.cancelled

\* cmd.CombinedOutput() returns: the child has ended by itself, with or
\* without an error and with or without output, or it was killed
ExecWait(p) ==
    /\ proc[p].pc = "exec.wait"
    /\ \E runErr \in BOOLEAN, hasOutput \in BOOLEAN, killed \in BOOLEAN :
          /\ killed => (KilledOnCancel(proc[p]) /\ runErr)
          /\ SetProc(p, ExecReturn(
                [proc[p] EXCEPT !.child = IF killed THEN "killed" ELSE "exited",
                                !.runErr = IF killed THEN KilledErrorText
                                           ELSE IF runErr THEN ExitErrorText ELSE "",
                                !.outStr = IF hasOutput THEN "i-0abc" ELSE ""],
                IF proc[p].helper
                THEN IF runErr THEN "ListFailed"
                     ELSE IF hasOutput THEN "Picker" ELSE "NoInstances"
                ELSE IF runErr THEN "ExecError" ELSE "Success"))
    /\ UNCHANGED <<call, ret, fs>>

\* the same request arrives a second time
ExecAgain(p) ==
    /\ proc[p].entry = "execute"
    /\ proc[p].pc = "done"
    /\ proc[p].calls = 1
    /\ SetProc(p, [BaseProc EXCEPT !.entry = "execute", !.pc = "exec.start", !.calls = 2,
                                   !.raw = call.command, !.allowed = proc[p].allowed,
                                   !.prepend = proc[p].prepend,
                                   !.fallback = proc[p].fallback])
    /\ UNCHANGED <<call, ret, fs>>

\* ---- requests ----

RawCommands ==
    {"", "aws", "aws help", "help full", "aws s3 ls", " AWS s3 ls ", "s3 ls",
     "aws aws s3 ls", "ec2 rm", "aws helper reboot-ec2", "s3 'ls"}

AllowLists == {<<>>, <<"s3 ls">>, <<" s3 ", "helper">>}

PrependLists == {<<>>, <<"--region", "x">>}

\* a loader only the wildcard of resolveLoaderPath finds
GlobLoaderEntry == Header("glibc/ld-linux-armhf.so.3", "reg", 1, 1)

ExecArchives ==
    SeqsUpTo({AwsEntry, LoaderEntry, GlobLoaderEntry, EscapeEntry}, MaxBundleEntries)

InitExec ==
    /\ call \in {[fn |-> "Execute", command |-> c, arch |-> g.arch,
                  override |-> g.override, archive |-> a] :
                    c \in RawCommands, g \in Platforms, a \in ExecArchives}
    /\ ret = Pending
    /\ fs = EmptyCacheFs
    /\ \E al \in AllowLists, pre \in PrependLists :
          proc = [q \in {1} |->
                     [BaseProc EXCEPT !.entry = "execute", !.pc = "exec.start",
                                      !.calls = 1, !.raw = call.command,
                                      !.allowed = al, !.prepend = pre]]

NextExec ==
    \/ \E p \in Procs : ExecStart(p)
    \/ \E p \in Procs : ExecCheck(p)
    \/ \E p \in Procs : ExecPrepend(p)
    \/ \E p \in Procs : EnsureStart(p)
    \/ \E p \in Procs : EnsureStatGlibc(p)
    \/ \E p \in Procs : EnsureMkdir(p)
    \/ \E p \in Procs : EnsureDownload(p)
    \/ \E p \in Procs : UntarBegin(p)
    \/ \E p \in Procs : UntarNext(p)
    \/ \E p \in Procs : UntarOpen(p)
    \/ \E p \in Procs : UntarCopy(p)
    \/ \E p \in Procs : EnsureExtracted(p)
    \/ \E p \in Procs : EnsureChmodLoaders(p)
    \/ \E p \in Procs : EnsureReturn(p)
    \/ \E p \in Procs : ExecPrepared(p)
    \/ \E p \in Procs : ExecRun(p)
    \/ \E p \in Procs : ExecWait(p)
    \/ \E p \in Procs : ExecAgain(p)

SpecExec == InitExec /\ [][NextExec]_vars

(***************************************************************************)
(* Bounds and inputs of the isAllowed harness                              *)
(***************************************************************************)

MaxCmdLen == 3
MaxAllow  == 2

CmdAlphabet == {" ", "e", "E"}

ExampleAllow == <<"ec2 describe", "sts get-caller-identity">>

CmdInputs ==
    StrsUpTo(CmdAlphabet, MaxCmdLen)
        \cup {"ec2 describe-instances", "ec2 delete-instance",
              " sts get-caller-identity ", "EC2 describe-instances"}

AllowEntries == {"", " ", "e", "E", " e ", "ee"}

AllowInputs == SeqsUpTo(AllowEntries, MaxAllow) \cup {ExampleAllow}

InitIsAllowed ==
    /\ call \in {[fn |-> f, cmd |-> c, allow |-> a] :
                    f \in {"isAllowed", "notAllowed"},
                    c \in CmdInputs, a \in AllowInputs}
    /\ ret = Pending
    /\ fs = <<>>
    /\ proc = <<>>

CallIsAllowed ==
    /\ call.fn = "isAllowed"
    /\ ret = Pending
    /\ ret' = Returned(isAllowed(call.cmd, call.allow))
    /\ UNCHANGED <<call, fs, proc>>

\* the allow-list test of Execute applied to a command line
CallNotAllowed ==
    /\ call.fn = "notAllowed"
    /\ ret = Pending
    /\ ret' = Returned(notAllowed(call.cmd, call.allow))
    /\ UNCHANGED <<call, fs, proc>>

NextIsAllowed ==
    \/ CallIsAllowed
    \/ CallNotAllowed

SpecIsAllowed == InitIsAllowed /\ [][NextIsAllowed]_vars

(***************************************************************************)
(* C4                                                                      *)
(***************************************************************************)

AllSpace(s) == \A i \in 1..Len(s) : IsSpace(CharAt(s, i))

\* t is s with its leading and trailing white space removed
IsTrimOf(t, s) ==
    /\ \E i \in 0..Len(s), j \in 0..Len(s) :
          /\ i + Len(t) + j = Len(s)
          /\ AllSpace(SubSeq(s, 1, i))
          /\ SubSeq(s, i + 1, i + Len(t)) = t
          /\ AllSpace(SubSeq(s, Len(s) - j + 1, Len(s)))
    /\ t # "" => ~IsSpace(CharAt(t, 1)) /\ ~IsSpace(CharAt(t, Len(t)))

\* c starts with e, byte for byte
StartsWith(c, e) == \E k \in 0..Len(c) : SubSeq(c, 1, k) = e

\* the substrings of s that are s trimmed (exactly one)
TrimSet(s) ==
    {t \in {SubSeq(s, i, j) : i \in 1..(Len(s) + 1), j \in 0..Len(s)} : IsTrimOf(t, s)}

\* the trimmed command starts with at least one trimmed allow-list entry
MatchesSomeEntry(cmd, allow) ==
    LET tcs == TrimSet(cmd)
    IN  \E i \in 1..Len(allow) :
            LET tes == TrimSet(allow[i])
            IN  \E tc \in tcs, te \in tes : StartsWith(tc, te)

\* C4: for a non-empty allow-list, isAllowed is true if and only if the
\* trimmed command starts, byte for byte and case-sensitively, with at least
\* one trimmed allow-list entry; with the list ["ec2 describe",
\* "sts get-caller-identity"], "ec2 describe-instances" is allowed and
\* "ec2 delete-instance" is not.
C4_PrefixSemantics ==
    (call.fn = "isAllowed" /\ ret # Pending /\ call.allow # <<>>) =>
        /\ ret[1] = MatchesSomeEntry(call.cmd, call.allow)
        /\ (call.allow = ExampleAllow /\ call.cmd = "ec2 describe-instances") => ret[1] = TRUE
        /\ (call.allow = ExampleAllow /\ call.cmd = "ec2 delete-instance") => ret[1] = FALSE

\* the example list has answered both ways: here the rejected command
C4_Witness ==
    /\ call.fn = "isAllowed"
    /\ call.allow = ExampleAllow
    /\ call.cmd = "ec2 delete-instance"
    /\ ret = Returned(FALSE)

(***************************************************************************)
(* C1                                                                      *)
(***************************************************************************)

PathSegs(path) == CleanStack(Split(path), <<>>, TRUE)

\* path is root itself or lies below it, element by element
InsideRoot(root, path) ==
    LET rs == PathSegs(root)
        ps == PathSegs(path)
    IN  Len(ps) >= Len(rs) /\ SubSeq(ps, 1, Len(rs)) = rs

\* the entry name as the extractor joins it to the destination
RelName(rec) ==
    IF rec.entry = "untar" THEN rec.h.name ELSE TrimPrefix(rec.h.name, zipPrefix)

\* the name, followed from the destination, ends outside the destination
ResolvesOutside(rec) ==
    ~InsideRoot(rec.dst, rec.dst \o PathSeparator \o RelName(rec))

\* the entry gets as far as the path check of its extractor
ReachesPathCheck(rec) ==
    /\ rec.h # NoHeader
    /\ CASE rec.entry = "untar" -> rec.h.type \in {"dir", "reg"}
         [] rec.entry = "zip"   -> HasPrefix(rec.h.name, zipPrefix) /\ rec.h.type # "sym"
         [] OTHER               -> HasPrefix(rec.h.name, zipPrefix)

\* the name holds a ".." element or starts at the root
HasTraversal(name) ==
    \/ IsAbs(name)
    \/ \E i \in 1..Len(Split(name)) : Split(name)[i] = ".."

\* nothing exists outside the destination but the directories leading to it
NothingOutside ==
    \A p \in Procs : \A path \in DOMAIN fs :
        InsideRoot(proc[p].dst, path) \/ path \in Lineage(proc[p].dst)

ExtractFailedWith(rec, kinds) == rec.pc = "done" /\ rec.err \in kinds

\* C1 as stated, for untarGzSafe: every entry name with a ".." segment or an absolute-path
\* component makes the extraction fail with PathEscape, whatever precedes
\* it, and nothing is created outside the destination.
C1_AsClaimed ==
    /\ NothingOutside
    /\ \A p \in Procs :
          (proc[p].entry = "untar"
              /\ proc[p].h # NoHeader /\ HasTraversal(proc[p].h.name))
              => ExtractFailedWith(proc[p], {"PathEscape"})

\* C1 amended: no extraction creates a file or directory outside the
\* destination, and an entry that reaches the path check with a name that
\* resolves outside the destination fails the extraction: with PathEscape
\* in untarGzSafe, with PathEscape or the size error checked before it in
\* the zip loops.
C1_NoEscape ==
    /\ NothingOutside
    /\ \A p \in Procs :
          (ReachesPathCheck(proc[p]) /\ ResolvesOutside(proc[p]))
              => ExtractFailedWith(proc[p],
                    IF proc[p].entry = "untar" THEN {"PathEscape"}
                    ELSE {"PathEscape", "EntryTooLarge", "TotalTooLarge"})

\* an escaping entry was rejected after earlier entries had been written
C1_Witness ==
    \E p \in Procs :
        /\ proc[p].entry = "untar"
        /\ proc[p].h.name = "../bx"
        /\ proc[p].h.type = "reg"
        /\ proc[p].n >= 2
        /\ proc[p].extracted > 0
        /\ ExtractFailedWith(proc[p], {"PathEscape"})

(***************************************************************************)
(* C2                                                                      *)
(***************************************************************************)

\* p reads the next entry of its archive in this step
ReadsHeader(p) ==
    /\ proc[p].pc \in {"untar.next", "zip.next", "unzip.next"}
    /\ proc'[p].n = proc[p].n + 1

Oversized(rec) ==
    rec.h.type = "reg" /\ rec.h.size > EntryLimit(rec.entry)

\* no file holds more bytes than the per-entry limit
NoFileOverLimit ==
    \A p \in Procs : \A path \in DOMAIN fs : fs[path].len <= EntryLimit(proc[p].entry)

\* C2 as stated, for untarGzSafe: every regular-file entry declaring more than the per-entry
\* limit makes the extraction fail with EntryTooLarge.
C2_AsClaimed ==
    \A p \in Procs :
        (proc[p].entry = "untar" /\ Oversized(proc[p]))
            => ExtractFailedWith(proc[p], {"EntryTooLarge"})

\* the oversized entry stops the extraction with the error its extractor
\* finds first, or is skipped by the zip loops for lying outside aws/dist/
OversizedStops(rec) ==
    IF rec.entry = "untar"
    THEN IF ResolvesOutside(rec)
         THEN ExtractFailedWith(rec, {"PathEscape"})
         ELSE ExtractFailedWith(rec, {"EntryTooLarge"})
    ELSE IF HasPrefix(rec.h.name, zipPrefix)
         THEN ExtractFailedWith(rec, {"EntryTooLarge"})
         ELSE rec.err = "" /\ rec.pc \in {rec.entry \o ".next", "done"}

\* C2 amended: a regular-file entry declaring more than the per-entry limit
\* never gets a byte written: untarGzSafe fails with EntryTooLarge, or with
\* PathEscape when the name also escapes the destination; the zip loops fail
\* with EntryTooLarge, or skip the entry when it lies outside aws/dist/; the
\* step that reads the entry leaves the file system as it was, and no file
\* ever holds more than the limit.
C2_OversizedNeverWritten ==
    /\ [](NoFileOverLimit /\ \A p \in Procs : Oversized(proc[p]) => OversizedStops(proc[p]))
    /\ [][\A p \in Procs : (ReadsHeader(p) /\ Oversized(proc'[p])) => fs' = fs]_vars

\* an oversized entry was refused with files of earlier entries on disk
C2_Witness ==
    \E p \in Procs :
        /\ proc[p].entry = "untar"
        /\ Oversized(proc[p])
        /\ ExtractFailedWith(proc[p], {"EntryTooLarge"})
        /\ proc[p].extracted > 0
        /\ Exists(fs, Join(proc[p].dst, RelName(proc[p])))

(***************************************************************************)
(* C3                                                                      *)
(***************************************************************************)

\* the entry p reads in this step is a regular file that passes the checks
\* made before the total is tested, and pushes the total over the limit
PushesOverTotal(p) ==
    LET after == proc'[p]
    IN  /\ ReadsHeader(p)
        /\ after.h.type = "reg"
        /\ after.h.size <= EntryLimit(after.entry)
        /\ IF after.entry = "untar" THEN ~ResolvesOutside(after)
           ELSE HasPrefix(after.h.name, zipPrefix)
        /\ proc[p].extracted + after.h.size > TotalLimit(after.entry)

\* the running total of an extraction still at work, the declared size of
\* the file being written included (unzipAwsDist adds it before the test)
DeclaredSoFar(rec) ==
    rec.extracted
        + (IF rec.pc \in {"untar.open", "untar.copy", "zip.open", "zip.copy"}
           THEN rec.h.size ELSE 0)

\* C3 as stated, for untarGzSafe: the regular-file entry whose declared
\* size brings the total over the total limit makes the extraction fail with
\* TotalTooLarge.
C3_AsClaimed ==
    [][\A p \in Procs :
        (ReadsHeader(p) /\ proc[p].entry = "untar" /\ proc'[p].h.type = "reg"
            /\ proc[p].extracted + proc'[p].h.size > TotalLimit(proc[p].entry))
            => ExtractFailedWith(proc'[p], {"TotalTooLarge"})]_vars

\* C3 amended: a regular-file entry that passes the checks made before the
\* total is tested (per-entry limit; path check in untarGzSafe, aws/dist/
\* prefix in the zip loops) and would push the running total over the total
\* limit fails the extraction with TotalTooLarge in the step that reads it,
\* before its destination is opened: the file system is left as it was, and
\* while an extraction runs its running total never exceeds the limit.
C3_TotalEnforcedBeforeWrite ==
    /\ [](\A p \in Procs :
            proc[p].pc # "done" => DeclaredSoFar(proc[p]) <= TotalLimit(proc[p].entry))
    /\ [][\A p \in Procs :
            PushesOverTotal(p)
                => /\ ExtractFailedWith(proc'[p], {"TotalTooLarge"})
                   /\ fs' = fs]_vars

\* the total limit stopped untarGzSafe at its fifth full-size entry
C3_Witness ==
    \E p \in Procs :
        /\ proc[p].entry = "untar"
        /\ proc[p].extracted = maxExtractBytes
        /\ proc[p].h.size = maxEntryBytes
        /\ ExtractFailedWith(proc[p], {"TotalTooLarge"})

(***************************************************************************)
(* C8                                                                      *)
(***************************************************************************)

\* caller p takes a step of its own
Steps(p) == proc'[p] # proc[p]

\* caller p is at the fast path's tests
AtFastPathTest(rec) == rec.pc \in {"ensure.start", "ensure.glibc"}

\* caller p leaves ensureFromBundle with a bundle and no error
ReturnsBundle(p) ==
    /\ proc[p].pc \notin {"done", "exec.prepared"}
    /\ proc'[p].pc \in {"done", "exec.prepared"}
    /\ proc'[p].perr = ""

\* C8: when the cache is populated, ensureFromBundle goes through the fast
\* path's tests and returns the bundle with no network request and no write
\* to the disk; every bundle returned is the same triple of paths, so two
\* consecutive calls return identical bundles; and a caller makes a network
\* request only if the cache was not populated when its call began.
C8_Idempotent ==
    /\ [](\A p \in Procs :
            (proc[p].pc = "done" /\ proc[p].perr = "") => proc[p].bundle = BundleOk)
    /\ [][\A p \in Procs :
            /\ (Steps(p) /\ AtFastPathTest(proc[p]) /\ Populated(fs)) =>
                  /\ fs' = fs
                  /\ proc'[p].net = proc[p].net
                  /\ \/ proc'[p].pc = "ensure.glibc"
                     \/ ReturnsBundle(p) /\ proc'[p].bundle = BundleOk
            /\ proc'[p].net > proc[p].net => ~proc[p].validAtStart]_vars

\* a caller's first call fetched the bundle and its second call, begun on
\* the populated cache, has returned the bundle without another request
C8_Witness ==
    \E p \in Procs :
        /\ proc[p].entry = "ensure"
        /\ proc[p].calls = 2
        /\ proc[p].pc = "done"
        /\ proc[p].perr = ""
        /\ proc[p].validAtStart
        /\ proc[p].net = 1
        /\ proc[p].bundle = BundleOk

(***************************************************************************)
(* C10                                                                     *)
(***************************************************************************)

\* path is the binary or a file of the runtime libraries
BinaryOrLibrary(path) ==
    path # "" /\ (InsideRoot(distDir, path) \/ InsideRoot(glibcDir, path))

\* the extraction of caller q has opened its destination with O_TRUNC and
\* has not yet finished the copy: the file is truncated or partially written
Torn(q, f) ==
    /\ proc[q].pc = "untar.copy"
    /\ BinaryOrLibrary(proc[q].target)
    /\ Exists(f, proc[q].target)
    /\ f[proc[q].target].len < proc[q].h.size

\* C10: under every interleaving of concurrent ensureFromBundle calls on one
\* cache directory, no caller is returned a bundle, by the fast path or by
\* the slow path, while the binary or a library file is truncated or
\* partially written by another caller's extraction in flight.
C10_NoTornFiles ==
    [][\A p \in Procs :
          ReturnsBundle(p) => ~(\E q \in Procs \ {p} : Torn(q, fs'))]_vars

(***************************************************************************)
(* C5                                                                      *)
(***************************************************************************)

\* C5 as stated: for every command string c, isAllowed(c, empty sequence)
\* returns true.
C5_AsClaimed ==
    (call.fn = "isAllowed" /\ ret # Pending /\ call.allow = <<>>) => ret[1] = TRUE

\* C5: with an empty allow-list every command is allowed, and it is the
\* length guard of Execute that allows it: isAllowed(c, empty sequence)
\* returns false for every command string c, and the allow-list test of
\* Execute, len(allowed) > 0 && !isAllowed(c, allowed), rejects no command
\* when the list is empty.
C5_EmptyListAllowsAll ==
    (ret # Pending /\ call.fn \in {"isAllowed", "notAllowed"} /\ call.allow = <<>>) =>
        ret[1] = FALSE

\* the test of Execute has let a non-empty command through on an empty list
C5_Witness ==
    /\ call.fn = "notAllowed"
    /\ call.allow = <<>>
    /\ call.cmd = "ec2 delete-instance"
    /\ ret = Returned(FALSE)

(***************************************************************************)
(* C6                                                                      *)
(***************************************************************************)

\* the requests of Execute whose configuration merged without error
Requests == {p \in Procs : proc[p].entry = "execute" /\ ~proc[p].cfgErr}

\* the allow-list is not empty and the normalized command fails the filter
FailsFilter(rec) ==
    /\ rec.allowed # <<>>
    /\ ~isAllowed(normalizeCmd(call.command), rec.allowed)

\* the request is answered by the help routing
HelpRouted == ToLower(TrimSpace(call.command)) \in (HelpCommands \cup FullHelpCommands)

\* neither the Dependency Resolver nor a child process has been used, and
\* the request is before its allow-list check or has ended
NothingAttempted(rec) ==
    /\ rec.prepares = 0
    /\ rec.net = 0
    /\ rec.started = <<>>
    /\ rec.pc \in {"exec.start", "exec.check", "done"}

\* C6 as stated: if the allow-list is non-empty and the normalized command
\* fails the filter, the request ends in Rejected, the Dependency Resolver
\* is never called and no child process is started.
C6_AsClaimed ==
    \A p \in Requests :
        FailsFilter(proc[p]) =>
            /\ NothingAttempted(proc[p])
            /\ proc[p].pc = "done" => proc[p].out = "Rejected"

\* C6: if the allow-list is non-empty and the normalized command fails the
\* filter, the Dependency Resolver is never called (no download, no
\* extraction) and no child process is started; the request ends in
\* Rejected, unless the command is one of the help commands, which are
\* answered with the help before the allow-list is consulted.
C6_RejectedBeforeResolver ==
    \A p \in Requests :
        FailsFilter(proc[p]) =>
            /\ NothingAttempted(proc[p])
            /\ fs = EmptyCacheFs
            /\ proc[p].pc = "done" =>
                  IF HelpRouted THEN proc[p].out \in {"Help", "FullHelp"}
                  ELSE proc[p].out = "Rejected"

\* a command outside a non-empty allow-list has been rejected
C6_Witness ==
    \E p \in Requests :
        /\ FailsFilter(proc[p])
        /\ call.command = "ec2 rm"
        /\ proc[p].pc = "done"
        /\ proc[p].out = "Rejected"
        /\ proc[p].tested = <<"ec2 rm">>

(***************************************************************************)
(* C7                                                                      *)
(***************************************************************************)

\* the command trimmed, one leading plugin name (in any letter case)
\* removed, and trimmed again
StripOnce(raw) ==
    LET t == TrimSpace(raw)
    IN  IF Len(t) >= 3 /\ ToLower(SubSeq(t, 1, 3)) = "aws"
        THEN TrimSpace(SubSeq(t, 4, Len(t)))
        ELSE t

\* the command line with the prependArgs joined in front
WithPrepend(rec, cmd) == JoinStr(rec.prepend \o <<cmd>>, " ")

\* the check of the request has passed: the list is empty, or the string
\* tested was allowed
CheckPassed(rec) ==
    \/ rec.allowed = <<>>
    \/ rec.tested # <<>> /\ MatchesSomeEntry(rec.tested[1], rec.allowed)

\* within one request, prependArgs are joined in by a step taken after the
\* check has passed
PrependAfterCheck ==
    \A p \in Procs :
        (proc[p].entry = "execute" /\ proc[p].prepend # <<>>
            /\ proc'[p].calls = proc[p].calls
            /\ proc'[p].cmdLine # proc[p].cmdLine /\ proc[p].cmdLine # "") =>
            /\ proc[p].pc = "exec.prepend"
            /\ CheckPassed(proc[p])
            /\ proc'[p].cmdLine = WithPrepend(proc[p], proc[p].cmdLine)

\* C7 as stated: the string tested by isAllowed never contains the plugin
\* name prefix nor any prepended argument, and prependArgs are applied only
\* after the check has passed.
C7_AsClaimed ==
    /\ [](\A p \in Requests :
            proc[p].tested # <<>> =>
                /\ ~HasPrefix(proc[p].tested[1], pluginName)
                /\ proc[p].prepend # <<>> =>
                      proc[p].tested[1] # WithPrepend(proc[p], StripOnce(call.command)))
    /\ [][PrependAfterCheck]_vars

\* C7: the string tested by isAllowed is the command trimmed and stripped
\* of one leading plugin name, computed before prependArgs are joined in, so
\* it holds no prepended argument; it begins with the plugin name only when
\* the command still does after one plugin name was removed; and
\* prependArgs are applied only after the check has passed.
C7_CheckedBeforePrepend ==
    /\ [](\A p \in Requests :
            proc[p].tested # <<>> =>
                /\ proc[p].tested[1] = StripOnce(call.command)
                /\ proc[p].prepend # <<>> =>
                      proc[p].tested[1] # WithPrepend(proc[p], StripOnce(call.command))
                /\ HasPrefix(proc[p].tested[1], pluginName) =>
                      HasPrefix(StripOnce(call.command), pluginName))
    /\ [][PrependAfterCheck]_vars

\* " AWS s3 ls " was tested as "s3 ls", passed, and then got its
\* prependArgs
C7_Witness ==
    \E p \in Requests :
        /\ call.command = " AWS s3 ls "
        /\ proc[p].tested = <<"s3 ls">>
        /\ proc[p].prepend = <<"--region", "x">>
        /\ proc[p].cmdLine = "--region x s3 ls"
        /\ proc[p].args = <<"--region", "x", "s3", "ls">>

(***************************************************************************)
(* C9                                                                      *)
(***************************************************************************)

\* path exists and has an execute bit
ExistsExecutable(f, path) == path \in DOMAIN f /\ f[path].exec

\* C9: whenever the Dependency Resolver has returned a bundle without
\* error, by the fast path or by the slow path and for any archive that
\* extracts without error, the bundle's binary exists and is executable,
\* and a loader selected for the execution exists and is executable.
C9_BundleInvariant ==
    \A p \in Procs :
        /\ (proc[p].pc = "exec.prepared" /\ proc[p].perr = "") =>
              ExistsExecutable(fs, proc[p].bundle[1])
        /\ proc[p].pc = "exec.run" =>
              /\ ExistsExecutable(fs, proc[p].bundle[1])
              /\ proc[p].ld # "" => ExistsExecutable(fs, proc[p].ld)

(***************************************************************************)
(* buildEnv applied to drawn inputs                                        *)
(***************************************************************************)

\* cfg.Env: any of the four variables the plugin sets, and one of its own
ConfigEnvs ==
    UNION {[ks -> {"cfg"}] :
              ks \in SUBSET {"HOME", "AWS_PAGER", "LD_LIBRARY_PATH", "AWS_DEFAULT_REGION"}}

InitBuildEnv ==
    /\ call \in {[fn |-> "buildEnv", environ |-> Environ(inh), defaultRegion |-> reg,
                  env |-> ce, ldPath |-> ld] :
                    inh \in SUBSET EnvVars, reg \in {"", "eu"},
                    ce \in ConfigEnvs, ld \in {"", buildLDPath(glibcDir, distDir)}}
    /\ ret = Pending
    /\ fs = <<>>
    /\ proc = <<>>

CallBuildEnv ==
    /\ call.fn = "buildEnv"
    /\ ret = Pending
    /\ \E order \in RangeOrders(call.env) :
          ret' = Returned(buildEnv(call.environ, call.defaultRegion, call.env,
                                   order, call.ldPath))
    /\ UNCHANGED <<call, fs, proc>>

NextBuildEnv == CallBuildEnv

SpecBuildEnv == InitBuildEnv /\ [][NextBuildEnv]_vars

(***************************************************************************)
(* C11                                                                     *)
(***************************************************************************)

\* the value the layers of the claim give variable k, highest layer first:
\* configuration env, AWS_DEFAULT_REGION from defaultRegion, the resolved
\* LD_LIBRARY_PATH, the safety defaults, the inherited environment
LayeredValue(k) ==
    IF k \in DOMAIN call.env THEN <<call.env[k]>>
    ELSE IF k = "AWS_DEFAULT_REGION" /\ call.defaultRegion # "" THEN <<call.defaultRegion>>
    ELSE IF k = "LD_LIBRARY_PATH" /\ call.ldPath # "" THEN <<call.ldPath>>
    ELSE IF k = "HOME" THEN <<"/tmp">>
    ELSE IF k = "AWS_PAGER" THEN <<"">>
    ELSE IF \E i \in 1..Len(call.environ) : call.environ[i] = k \o "=inh" THEN <<"inh">>
    ELSE <<>>

\* C11: in the environment given to the child process every variable has
\* the value of the highest layer that defines it, in the order inherited
\* environment < safety defaults (HOME=/tmp, AWS_PAGER empty) < resolved
\* LD_LIBRARY_PATH < AWS_DEFAULT_REGION from defaultRegion < configuration
\* env; a configuration entry for HOME, AWS_PAGER, LD_LIBRARY_PATH or
\* AWS_DEFAULT_REGION wins, and the safety defaults win over inherited values.
C11_EnvPrecedence ==
    (call.fn = "buildEnv" /\ ret # Pending) =>
        \A k \in EnvVars : ChildEnv(ret[1], k) = LayeredValue(k)

\* every layer defined HOME, and the child reads the configured value
C11_Witness ==
    /\ call.fn = "buildEnv"
    /\ ret # Pending
    /\ "HOME=inh" \in {call.environ[i] : i \in 1..Len(call.environ)}
    /\ "HOME" \in DOMAIN call.env
    /\ "AWS_DEFAULT_REGION" \in DOMAIN call.env
    /\ call.defaultRegion = "eu"
    /\ ChildEnv(ret[1], "HOME") = <<"cfg">>
    /\ ChildEnv(ret[1], "AWS_DEFAULT_REGION") = <<"cfg">>
    /\ ChildEnv(ret[1], "AWS_PAGER") = <<"">>

(***************************************************************************)
(* C12                                                                     *)
(***************************************************************************)

\* the arguments the caller of runAWS passes: the tokens of the command
\* line, or those of listEC2InstanceIDs
CallerArgs(rec) == IF rec.helper THEN DescribeInstancesArgs ELSE rec.args

\* the command of the run is dispatched as the Process Runner prescribes
DispatchedAsSpecified(rec) ==
    IF rec.ld # ""
    THEN /\ rec.cmd.path = rec.ld
         /\ rec.cmd.argv = <<"--library-path", glibcDir \o ":" \o distDir, awsBin>>
                               \o CallerArgs(rec)
    ELSE /\ rec.cmd.path = awsBin
         /\ rec.cmd.argv = CallerArgs(rec)

\* the program of the run exists as a file with an execute bit
Launchable(rec) ==
    /\ rec.cmd.path \in DOMAIN fs
    /\ fs[rec.cmd.path].kind = "file"
    /\ fs[rec.cmd.path].exec

Cancel(p) ==
    /\ proc[p].entry = "execute"
    /\ proc[p].pc # "done"
    /\ ~proc[p].cancelled
    /\ SetProc(p, [proc[p] EXCEPT !.cancelled = TRUE])
    /\ UNCHANGED <<call, ret, fs>>

CancelCommands == {"aws s3 ls", "aws helper reboot-ec2"}

InitCancel ==
    /\ call \in {[fn |-> "Execute", command |-> c, arch |-> g.arch,
                  override |-> g.override, archive |-> a] :
                    c \in CancelCommands, g \in Platforms, a \in ExecArchives}
    /\ ret = Pending
    /\ fs = EmptyCacheFs
    /\ proc = [q \in {1} |->
                  [BaseProc EXCEPT !.entry = "execute", !.pc = "exec.start",
                                   !.calls = 1, !.raw = call.command]]

NextCancel ==
    \/ \E p \in Procs : Cancel(p)
    \/ \E p \in Procs : ExecStart(p)
    \/ \E p \in Procs : ExecCheck(p)
    \/ \E p \in Procs : ExecPrepend(p)
    \/ \E p \in Procs : EnsureStart(p)
    \/ \E p \in Procs : EnsureStatGlibc(p)
    \/ \E p \in Procs : EnsureMkdir(p)
    \/ \E p \in Procs : EnsureDownload(p)
    \/ \E p \in Procs : UntarBegin(p)
    \/ \E p \in Procs : UntarNext(p)
    \/ \E p \in Procs : UntarOpen(p)
    \/ \E p \in Procs : UntarCopy(p)
    \/ \E p \in Procs : EnsureExtracted(p)
    \/ \E p \in Procs : EnsureChmodLoaders(p)
    \/ \E p \in Procs : EnsureReturn(p)
    \/ \E p \in Procs : ExecPrepared(p)
    \/ \E p \in Procs : ExecRun(p)
    \/ \E p \in Procs : ExecWait(p)
    \/ \E p \in Procs : ExecAgain(p)

\* a download and a child may last forever: what the code guarantees is that
\* the transport ends a request whose context is canceled, that a killed
\* child ends, and that Execute, handed the resolver's error, goes on to
\* answer; no other step is assumed to be taken
FairCancel ==
    \A p \in {1} :
        /\ WF_vars(proc[p].cancelled /\ EnsureDownload(p))
        /\ WF_vars(KilledOnCancel(proc[p]) /\ ExecWait(p))
        /\ WF_vars(proc[p].perr # "" /\ ExecPrepared(p))

SpecCancel == InitCancel /\ [][NextCancel]_vars /\ FairCancel

(***************************************************************************)
(* C13                                                                     *)
(***************************************************************************)

\* the context is canceled while the child runs or the download is in flight
CanceledInFlight(rec) ==
    rec.cancelled /\ rec.pc \in {"exec.wait", "ensure.download"}

\* the nodes of the cache
CacheNodes(f) == {q \in DOMAIN f : InsideRoot(depsRoot, q)}

\* what the step of a request canceled in flight does: the child is no
\* longer running, or the download has failed without a bundle
EndsInFlightWork(p) ==
    (CanceledInFlight(proc[p]) /\ proc'[p] # proc[p]) =>
        IF proc[p].pc = "exec.wait"
        THEN /\ proc'[p].child \in {"killed", "exited"}
             /\ proc'[p].pc = "done"
             /\ proc'[p].out # ""
        ELSE /\ proc'[p].perr = "DownloadFailed"
             /\ proc'[p].bundle = NoBundle
             /\ proc'[p].pc = "exec.prepared"
             /\ CacheNodes(fs') = CacheNodes(fs)

\* C13: if the context is canceled while the child process is running or
\* while the download is in flight, the child is terminated, respectively
\* the download aborted, and Execute eventually returns a response; what was
\* extracted into the cache is not rolled back.
C13_Cancellation ==
    /\ [][\A p \in Procs :
            /\ EndsInFlightWork(p)
            /\ proc[p].cancelled =>
                  \A q \in CacheNodes(fs) : q \in CacheNodes(fs')]_vars
    /\ \A p \in {1} :
          CanceledInFlight(proc[p]) ~> (proc[p].pc = "done" /\ proc[p].out # "")

\* the child of a canceled request was killed and the request has returned
\* its error message
C13_Witness ==
    \E p \in Procs :
        /\ proc[p].cancelled
        /\ proc[p].child = "killed"
        /\ proc[p].pc = "done"
        /\ proc[p].out = "ExecError"
        /\ Len(proc[p].started) = 1

(***************************************************************************)
(* Execute under the assumption that every step it waits for ends          *)
(***************************************************************************)

RespondCommands ==
    {"aws help", "help full", "aws s3 ls", "aws helper reboot-ec2", "s3 'ls"}

RespondAllowLists == {<<>>, <<"s3 ls">>}

\* bundles: empty, complete with either kind of loader, without a loader,
\* and one with an entry that leaves the cache directory
RespondArchives ==
    {<<>>, <<AwsEntry>>, <<AwsEntry, LoaderEntry>>, <<GlobLoaderEntry, AwsEntry>>,
     <<AwsEntry, EscapeEntry>>}

InitRespond ==
    /\ call \in {[fn |-> "Execute", command |-> c, arch |-> g.arch,
                  override |-> g.override, archive |-> a] :
                    c \in RespondCommands, g \in Platforms, a \in RespondArchives}
    /\ ret = Pending
    /\ fs = EmptyCacheFs
    /\ \E al \in RespondAllowLists :
          proc = [q \in {1} |->
                     [BaseProc EXCEPT !.entry = "execute", !.pc = "exec.start",
                                      !.calls = 1, !.raw = call.command,
                                      !.allowed = al]]

\* the goroutine of the request takes each of its steps, and the download
\* and the child it waits for end
FairRespond ==
    \A p \in {1} :
        /\ WF_vars(ExecStart(p))
        /\ WF_vars(ExecCheck(p))
        /\ WF_vars(ExecPrepend(p))
        /\ WF_vars(EnsureStart(p))
        /\ WF_vars(EnsureStatGlibc(p))
        /\ WF_vars(EnsureMkdir(p))
        /\ WF_vars(EnsureDownload(p))
        /\ WF_vars(UntarBegin(p))
        /\ WF_vars(UntarNext(p))
        /\ WF_vars(UntarOpen(p))
        /\ WF_vars(UntarCopy(p))
        /\ WF_vars(EnsureExtracted(p))
        /\ WF_vars(EnsureChmodLoaders(p))
        /\ WF_vars(EnsureReturn(p))
        /\ WF_vars(ExecPrepared(p))
        /\ WF_vars(ExecRun(p))
        /\ WF_vars(ExecWait(p))

SpecRespond == InitRespond /\ [][NextExec]_vars /\ FairRespond

(***************************************************************************)
(* C14                                                                     *)
(***************************************************************************)

\* the returns of Execute that report a failure, and all its returns
FailureKinds ==
    {"ConfigError", "Rejected", "ProvisioningFailed", "InvalidArgs", "ExecError",
     "ListFailed"}
ResponseKinds ==
    FailureKinds \cup {"Help", "FullHelp", "NoInstances", "Picker", "Success"}

\* the terminal states the state machine names: Formatted is the rendering
\* of an execution result
NamedTerminal(rec) ==
    \/ rec.out \in {"Rejected", "ProvisioningFailed"}
    \/ rec.out \in {"ExecError", "Success"} /\ rec.runs = 1

Responded(rec) ==
    /\ rec.out \in ResponseKinds
    /\ rec.msg.text # ""
    /\ rec.out \in FailureKinds => rec.msg.style = "plaintext"

Contains(s, sub) ==
    \E i \in 1..(Len(s) - Len(sub) + 1) : SubSeq(s, i, i + Len(sub) - 1) = sub
HasSuffix(s, suffix) ==
    /\ Len(s) >= Len(suffix)
    /\ SubSeq(s, Len(s) - Len(suffix) + 1, Len(s)) = suffix

\* the request has returned after its process step
ProcessStepRan(rec) == rec.pc = "done" /\ rec.runs = 1

\* plain text with the captured output and a closing ERROR line
IsErrorStyle(rec) ==
    /\ rec.msg.style = "plaintext"
    /\ rec.outStr # "" => Contains(rec.msg.text, rec.outStr)
    /\ HasSuffix(rec.msg.text, "ERROR: " \o rec.runErr)

\* a code block of the captured output
IsSuccessStyle(rec) ==
    /\ rec.msg.style = "codeblock"
    /\ rec.outStr # "" => rec.msg.text = rec.outStr

IsHelperAnswer(rec) ==
    IF rec.runErr # ""
    THEN /\ rec.msg.style = "plaintext"
         /\ Contains(rec.msg.text, rec.runErr)
    ELSE IF rec.outStr = ""
         THEN rec.msg = msg("no instances found")
         ELSE rec.msg.style = "sections"

officialDistDir == Join(Join(depsRoot, "aws-official"), "dist")
officialAwsBin == Join(officialDistDir, "aws")

\* func ensureFromOfficialZip(ctx): the binary is already there; or the
\* directory cannot be made; or the download fails; or the extraction
\* fails; or the aws/dist/ tree is extracted and made executable
EnsureFromOfficialZip(p) ==
    /\ proc[p].pc = "zip.ensure"
    /\ LET rec == proc[p]
           ok  == <<officialAwsBin, "", officialDistDir>>
           m   == MkdirAll(fs, officialDistDir)
       IN  IF isExecutable(fs, officialAwsBin)
           THEN /\ SetProc(p, EnsureDone(rec, "", ok))
                /\ fs' = fs
           ELSE IF ~m.ok
           THEN /\ SetProc(p, EnsureDone(rec, "IOFailure", NoBundle))
                /\ fs' = fs
           ELSE \/ /\ SetProc(p, EnsureDone([rec EXCEPT !.net = @ + 1],
                                            "DownloadFailed", NoBundle))
                   /\ fs' = m.fs
                \/ /\ \E e \in {"EntryTooLarge", "TotalTooLarge", "PathEscape", "IOFailure"} :
                         SetProc(p, EnsureDone([rec EXCEPT !.net = @ + 1], e, NoBundle))
                   /\ fs' = m.fs
                \/ /\ SetProc(p, EnsureDone([rec EXCEPT !.net = @ + 1], "", ok))
                   /\ fs' = WithNodes(m.fs, [q \in {officialAwsBin} |-> FileNode(TRUE, 1)])
    /\ UNCHANGED <<call, ret>>

ProvisionCommands == {"aws s3 ls", "aws helper reboot-ec2"}

InitProvision ==
    /\ call \in {[fn |-> "Execute", command |-> c, arch |-> g.arch,
                  override |-> g.override, archive |-> a] :
                    c \in ProvisionCommands, g \in Platforms, a \in RespondArchives}
    /\ ret = Pending
    /\ fs = EmptyCacheFs
    /\ \E second \in BOOLEAN :
          proc = [q \in {1} |->
                     [BaseProc EXCEPT !.entry = "execute", !.pc = "exec.start",
                                      !.calls = 1, !.raw = call.command,
                                      !.fallback = second]]

NextProvision ==
    \/ \E p \in Procs : ExecStart(p)
    \/ \E p \in Procs : ExecCheck(p)
    \/ \E p \in Procs : ExecPrepend(p)
    \/ \E p \in Procs : EnsureStart(p)
    \/ \E p \in Procs : EnsureStatGlibc(p)
    \/ \E p \in Procs : EnsureMkdir(p)
    \/ \E p \in Procs : EnsureDownload(p)
    \/ \E p \in Procs : UntarBegin(p)
    \/ \E p \in Procs : UntarNext(p)
    \/ \E p \in Procs : UntarOpen(p)
    \/ \E p \in Procs : UntarCopy(p)
    \/ \E p \in Procs : EnsureExtracted(p)
    \/ \E p \in Procs : EnsureChmodLoaders(p)
    \/ \E p \in Procs : EnsureReturn(p)
    \/ \E p \in Procs : ExecPrepared(p)
    \/ \E p \in Procs : ExecRun(p)
    \/ \E p \in Procs : ExecWait(p)
    \/ \E p \in Procs : ExecAgain(p)
    \/ \E p \in Procs : EnsureFromOfficialZip(p)

SpecProvision == InitProvision /\ [][NextProvision]_vars

(***************************************************************************)
(* C16                                                                     *)
(***************************************************************************)

\* the resolver has just returned an error to Execute
ResolverFailed(rec) == rec.pc = "exec.prepared" /\ rec.perr # ""

\* the request ends in ProvisioningFailed with the error in its message,
\* without another attempt and without a child
EndsProvisioningFailed(p) ==
    /\ proc'[p].pc = "done"
    /\ proc'[p].out = "ProvisioningFailed"
    /\ proc'[p].msg.style = "plaintext"
    /\ Contains(proc'[p].msg.text, proc[p].perr)
    /\ proc'[p].prepares = proc[p].prepares
    /\ proc'[p].net = proc[p].net
    /\ proc'[p].runs = 0
    /\ proc'[p].started = <<>>

\* C16 as stated: when the resolver fails, the request ends in
\* ProvisioningFailed, with no second provisioning or download attempt.
C16_AsClaimed ==
    [][\A p \in Procs :
          (ResolverFailed(proc[p]) /\ proc'[p] # proc[p]) => EndsProvisioningFailed(p)]_vars

\* the one fallback of the revision of Execute with a second source
TriesOfficialZip(p) ==
    /\ proc[p].fallback
    /\ proc[p].prepares = 1
    /\ proc'[p].pc = "zip.ensure"
    /\ proc'[p].prepares = 2
    /\ proc'[p].started = <<>>

\* C16: when the resolver fails, the request ends in ProvisioningFailed with
\* a message carrying the error, without another provisioning or download
\* attempt and without a child process; the revision of Execute that has
\* the official zip as a second source first tries it, once, and ends the
\* same way when that fails too.
C16_NoRetry ==
    /\ [][\A p \in Procs :
            (ResolverFailed(proc[p]) /\ proc'[p] # proc[p]) =>
                \/ EndsProvisioningFailed(p)
                \/ TriesOfficialZip(p)]_vars
    /\ [](\A p \in Procs :
            /\ proc[p].prepares <= (IF proc[p].fallback THEN 2 ELSE 1)
            /\ proc[p].net <= proc[p].prepares
            /\ proc[p].out = "ProvisioningFailed" => proc[p].runs = 0)

\* a failed download has ended the request of the revision without a
\* second source
C16_Witness ==
    \E p \in Procs :
        /\ ~proc[p].fallback
        /\ proc[p].pc = "done"
        /\ proc[p].out = "ProvisioningFailed"
        /\ proc[p].perr = "DownloadFailed"
        /\ proc[p].net = 1
        /\ proc[p].prepares = 1
        /\ proc[p].started = <<>>

(***************************************************************************)
(* Configuration merge (mergeExecutorConfigs)                              *)
(***************************************************************************)

\* a field of a YAML document: absent, or present with a value
Absent == <<>>
Present(v) == <<v>>

\* the zero Config
ZeroConfig ==
    [DefaultRegion |-> "", PrependArgs |-> <<>>, Allowed |-> <<>>,
     Env |-> [k \in {} |-> ""]]

\* yaml.Unmarshal(c.RawYAML, &t) into a zero Config: an absent field keeps
\* its zero value
Unmarshal(src) ==
    [DefaultRegion |-> IF src.defaultRegion = Absent THEN "" ELSE src.defaultRegion[1],
     PrependArgs   |-> IF src.prependArgs = Absent THEN <<>> ELSE src.prependArgs[1],
     Allowed       |-> IF src.allowed = Absent THEN <<>> ELSE src.allowed[1],
     Env           |-> IF src.env = Absent THEN [k \in {} |-> ""] ELSE src.env[1]]

\* one iteration of the loop with every field assigned unconditionally
mergeOne_NoGuard(out, t) ==
    [DefaultRegion |-> t.DefaultRegion,
     PrependArgs   |-> t.PrependArgs,
     Allowed       |-> t.Allowed,
     Env           |-> [k \in (DOMAIN out.Env) \cup (DOMAIN t.Env) |->
                           IF k \in DOMAIN t.Env THEN t.Env[k] ELSE out.Env[k]]]

\* one iteration of the loop of mergeExecutorConfigs, after the unmarshal
mergeOne(out, t) ==
    [DefaultRegion |-> IF t.DefaultRegion # "" THEN t.DefaultRegion ELSE out.DefaultRegion,
     PrependArgs   |-> IF Len(t.PrependArgs) > 0 THEN t.PrependArgs ELSE out.PrependArgs,
     Allowed       |-> IF Len(t.Allowed) > 0 THEN t.Allowed ELSE out.Allowed,
     Env           |-> [k \in (DOMAIN out.Env) \cup (DOMAIN t.Env) |->
                           IF k \in DOMAIN t.Env THEN t.Env[k] ELSE out.Env[k]]]

\* the loop from source i on: nil and empty sources are skipped, a source
\* that does not parse ends the merge with its error
RECURSIVE mergeFrom(_, _, _)
mergeFrom(configs, i, out) ==
    IF i > Len(configs) THEN [err |-> "", cfg |-> out]
    ELSE IF configs[i].raw \in {"nil", "empty"} THEN mergeFrom(configs, i + 1, out)
    ELSE IF configs[i].raw = "invalid" THEN [err |-> YAMLErrorText, cfg |-> out]
    ELSE mergeFrom(configs, i + 1, mergeOne(out, Unmarshal(configs[i])))

\* func mergeExecutorConfigs(configs []*executor.Config, out *Config) error
mergeExecutorConfigs(configs) == mergeFrom(configs, 1, ZeroConfig)

MaxSources == 2

EnvKeys == {"A", "B"}

\* the documents a source may hold
YAMLSources ==
    {[raw |-> "yaml", defaultRegion |-> r, prependArgs |-> pre, allowed |-> al, env |-> e] :
        r   \in {Absent, Present(""), Present("eu")},
        pre \in {Absent, Present(<<"--debug">>)},
        al  \in {Absent, Present(<<>>), Present(<<"s3 ls">>)},
        e   \in {Absent, Present([k \in {"A"} |-> "1"]),
                 Present([k \in EnvKeys |-> IF k = "A" THEN "2" ELSE "3"])}}

OtherSources ==
    {[raw |-> x, defaultRegion |-> Absent, prependArgs |-> Absent, allowed |-> Absent,
      env |-> Absent] : x \in {"nil", "invalid"}}

InitMerge ==
    /\ call \in {[fn |-> "mergeExecutorConfigs", configs |-> c] :
                    c \in SeqsUpTo(YAMLSources \cup OtherSources, MaxSources)}
    /\ ret = Pending
    /\ fs = << >>
    /\ proc = << >>

CallMerge ==
    /\ call.fn = "mergeExecutorConfigs"
    /\ ret = Pending
    /\ ret' = Returned(mergeExecutorConfigs(call.configs))
    /\ UNCHANGED <<call, fs, proc>>

NextMerge == CallMerge

SpecMerge == InitMerge /\ [][NextMerge]_vars

(***************************************************************************)
(* C17                                                                     *)
(***************************************************************************)

\* the merge has returned without error
Merged == call.fn = "mergeExecutorConfigs" /\ ret # Pending /\ ret[1].err = ""

\* the sources in which a field appears, and those in which it has a value
Appears(field) ==
    {i \in 1..Len(call.configs) : call.configs[i][field] # Absent}
HasValue(field, empty) ==
    {i \in Appears(field) : call.configs[i][field][1] # empty}

Last(S) == CHOOSE i \in S : \A j \in S : j <= i

\* the value the last of the sources S gives to field, zero without any
LastValue(S, field, zero) ==
    IF S = {} THEN zero ELSE call.configs[Last(S)][field][1]

\* env merged key by key: every key of every source, with the value of the
\* last source that defines it
EnvKeyByKey(cfg) ==
    LET Defines(k) == {i \in Appears("env") : k \in DOMAIN call.configs[i].env[1]}
    IN  /\ DOMAIN cfg.Env = {k \in EnvKeys : Defines(k) # {}}
        /\ \A k \in DOMAIN cfg.Env : cfg.Env[k] = call.configs[Last(Defines(k))].env[1][k]

\* C17 as stated: each of defaultRegion, prependArgs and allowed equals the
\* value of the last source in which the field appears, an empty value
\* included, and env is merged key by key.
C17_AsClaimed ==
    Merged =>
        LET cfg == ret[1].cfg
        IN  /\ cfg.DefaultRegion = LastValue(Appears("defaultRegion"), "defaultRegion", "")
            /\ cfg.PrependArgs = LastValue(Appears("prependArgs"), "prependArgs", <<>>)
            /\ cfg.Allowed = LastValue(Appears("allowed"), "allowed", <<>>)
            /\ EnvKeyByKey(cfg)

\* C17: each of defaultRegion, prependArgs and allowed equals the value of
\* the last source that gives the field a non-empty value (a source that
\* sets it to an empty value changes nothing), and env is merged key by key.
C17_MergeOrder ==
    Merged =>
        LET cfg == ret[1].cfg
        IN  /\ cfg.DefaultRegion = LastValue(HasValue("defaultRegion", ""), "defaultRegion", "")
            /\ cfg.PrependArgs = LastValue(HasValue("prependArgs", <<>>), "prependArgs", <<>>)
            /\ cfg.Allowed = LastValue(HasValue("allowed", <<>>), "allowed", <<>>)
            /\ EnvKeyByKey(cfg)

\* two sources were merged: the second overrides the region of the first
\* and adds a key to its env
C17_Witness ==
    /\ Merged
    /\ Len(call.configs) = 2
    /\ call.configs[1].defaultRegion = Present("eu")
    /\ call.configs[2].defaultRegion = Present("")
    /\ call.configs[1].env = Present([k \in {"A"} |-> "1"])
    /\ DOMAIN ret[1].cfg.Env = EnvKeys
    /\ ret[1].cfg.DefaultRegion = "eu"

(***************************************************************************)
(* untarGzSafe on a given archive of one directory and one regular file    *)
(***************************************************************************)

\* the sizes a regular entry declares, from empty to the entry limit
RoundTripSizes == {0, 1, maxEntryBytes}

RoundTripDirs == {"a", "a/", "d"}
RoundTripFiles == {"a/f", "f", "d/f"}

\* archives of one directory entry and one regular entry, in either order,
\* whose content stream holds the declared number of bytes
RoundTripArchives ==
    UNION {{<<dh, fh>>, <<fh, dh>>} :
              dh \in {Header(dn, "dir", 0, 0) : dn \in RoundTripDirs},
              fh \in {[Header(fname, "reg", n, n) EXCEPT !.data = d] :
                         fname \in RoundTripFiles, n \in RoundTripSizes, d \in {"p", "q"}}}

\* untarGzSafe(src, dst) with an empty destination
InitRoundTrip ==
    /\ ret = Pending
    /\ \E dst \in Roots, a \in RoundTripArchives :
          /\ call = [fn |-> "untarGzSafe", archive |-> a]
          /\ fs = RootFs(dst)
          /\ proc = [q \in {1} |->
                        [BaseProc EXCEPT !.entry = "extract", !.pc = "untar.next",
                                         !.dst = dst]]

NextRoundTrip ==
    \/ \E p \in Procs : UntarNext(p)
    \/ \E p \in Procs : UntarOpen(p)
    \/ \E p \in Procs : UntarCopy(p)

SpecRoundTrip == InitRoundTrip /\ [][NextRoundTrip]_vars

(***************************************************************************)
(* C18                                                                     *)
(***************************************************************************)

\* the two entries of the archive
DirEntry == CHOOSE h \in {call.archive[i] : i \in 1..Len(call.archive)} : h.type = "dir"
FileEntry == CHOOSE h \in {call.archive[i] : i \in 1..Len(call.archive)} : h.type = "reg"

\* where the entries belong under the destination
DirPath(rec) == Join(rec.dst, DirEntry.name)
FilePath(rec) == Join(rec.dst, FileEntry.name)

\* the archive is that of a file tree: the file lies in the directory of
\* the archive or next to it
TreeArchive(rec) == Dir(FilePath(rec)) \in {rec.dst, DirPath(rec)}

\* the content of the file at path is the content of entry h
SameContent(f, path, h) ==
    /\ f[path].len = h.actual
    /\ f[path].data = IF h.actual = 0 THEN "" ELSE h.data

JoinBases == {"/r", "/r/b", "/r/b/c", "b"}

\* names as an archive may hold them
JoinNames ==
    {"", ".", "..", "a", "a/f", "a/", "a/../f", "a/../..", "a/../../bx", "../bx",
     "../b", "../b/a", "../../r/b", "../c", "/a", "/r/b", "//a", "./a", "bx", "c/../../b"}

InitSafeJoin ==
    /\ call \in {[fn |-> f, base |-> b, name |-> nm] :
                    f \in {"safeJoin", "safeJoinV0"}, b \in JoinBases, nm \in JoinNames}
    /\ ret = Pending
    /\ fs = << >>
    /\ proc = << >>

CallSafeJoin ==
    /\ call.fn = "safeJoin"
    /\ ret = Pending
    /\ ret' = Returned(safeJoin(call.base, call.name))
    /\ UNCHANGED <<call, fs, proc>>

CallSafeJoinV0 ==
    /\ call.fn = "safeJoinV0"
    /\ ret = Pending
    /\ ret' = Returned(safeJoinV0(call.base, call.name))
    /\ UNCHANGED <<call, fs, proc>>

NextSafeJoin ==
    \/ CallSafeJoin
    \/ CallSafeJoinV0

SpecSafeJoin == InitSafeJoin /\ [][NextSafeJoin]_vars

(***************************************************************************)
(* C19                                                                     *)
(***************************************************************************)

\* a call of either revision of safeJoin has returned
JoinReturned == call.fn \in {"safeJoin", "safeJoinV0"} /\ ret # Pending

\* the absolute, cleaned join equals the absolute base or starts with the
\* absolute base followed by the separator
JoinWithinBase ==
    \/ Abs(Join(call.base, call.name)) = Abs(call.base)
    \/ HasPrefix(Abs(Join(call.base, call.name)), Abs(call.base) \o PathSeparator)

\* C19: safeJoin succeeds only if the absolute, cleaned join of base and
\* the untrusted name equals the absolute base or starts with it followed
\* by the separator; a path it returns is base or a descendant of base,
\* element by element, so never a sibling such as base+"x"; in every other
\* case it fails with PathEscape.
C19_SafeJoin ==
    JoinReturned =>
        /\ ret[1].ok => JoinWithinBase
        /\ ret[1].ok => /\ InsideRoot(Abs(call.base), Abs(ret[1].path))
                        /\ ~HasPrefix(Abs(ret[1].path), Abs(call.base) \o "x")
        /\ ~JoinWithinBase => (~ret[1].ok /\ ret[1].err = "PathEscape")

\* the sibling /r/bx of the base /r/b has been asked for and refused
C19_Witness ==
    /\ JoinReturned
    /\ call.fn = "safeJoin"
    /\ call.base = "/r/b"
    /\ call.name = "../bx"
    /\ ~ret[1].ok

(***************************************************************************)
(* C20                                                                     *)
(***************************************************************************)

\* p reads an entry that is neither a directory nor a regular file
ReadsLinkEntry(p) == ReadsHeader(p) /\ proc'[p].h.type = "sym"

\* the step changes no file, opens none and leaves the extraction running
\* with the total it had
PassedOver(p) ==
    /\ fs' = fs
    /\ proc'[p].target = proc[p].target
    /\ proc'[p].pc = proc[p].pc
    /\ proc'[p].err = proc[p].err
    /\ proc'[p].extracted = proc[p].extracted

\* every node of the file system is a directory or a regular file
OnlyDirsAndFiles == \A path \in DOMAIN fs : fs[path].kind \in {"dir", "file"}

CheckedThenSkipped(p) ==
    LET h == proc'[p].h
    IN  /\ fs' = fs
        /\ proc'[p].target = proc[p].target
        /\ \/ /\ proc'[p].pc = proc[p].pc
              /\ proc'[p].err = proc[p].err
              /\ proc'[p].extracted = proc[p].extracted + h.size
              /\ h.size <= maxUnzipFileBytes
              /\ proc'[p].extracted <= maxUnzipTotalBytes
           \/ /\ proc'[p].pc = "done"
              /\ proc'[p].err \in {"EntryTooLarge", "TotalTooLarge", "PathEscape"}

TempArchives(f) == {t \in TmpNames : Exists(f, t)}

\* C21: by the time ensureFromBundle has returned to Execute, on the
\* success path and on every failure path, no temporary archive file
\* remains.
C21_TempRemoved ==
    \A p \in Procs :
        (proc[p].entry = "execute" /\ proc[p].pc = "exec.prepared") =>
            TempArchives(fs) = {}

(***************************************************************************)
(* C22                                                                     *)
(***************************************************************************)

\* p has chosen its temporary name and has not yet returned: it downloads
\* to the file or extracts from it
UsesTemp(p) ==
    proc[p].pc \in {"ensure.download", "untar.begin", "untar.next", "untar.open",
                    "untar.copy", "ensure.extracted", "ensure.chmodld", "ensure.ret"}

\* C22: two ensureFromBundle calls whose downloads overlap in time never
\* write to the same temporary file name, so that neither overwrites or
\* removes the file the other downloads or extracts from.
C22_NoCollision ==
    /\ \A p, q \in Procs :
          (p # q /\ UsesTemp(p) /\ UsesTemp(q)) => proc[p].tmp # proc[q].tmp
    /\ \A p \in Procs :
          proc[p].pc \in {"untar.next", "untar.open", "untar.copy"} =>
              Exists(fs, proc[p].tmp)

(***************************************************************************)
(* ensureFromBundle on every architecture, with and without the override   *)
(***************************************************************************)

\* runtime.GOARCH, one value without an entry in defaultBundleURL
Archs == {"amd64", "arm64", "riscv64"}

\* values of AWSCLI_TARBALL_URL_<ARCH>; unset reads as ""
Overrides == {"", "https://o/aws.tar.gz"}

\* an entry of a served bundle outside awscli/dist and glibc
StrayEntry == Header("doc/README", "reg", 1, 1)

\* the bundles served
ResolveArchives == RespondArchives \cup {<<StrayEntry>>, <<AwsEntry, StrayEntry>>}

InitResolve ==
    /\ call \in {[fn |-> "ensureFromBundle", arch |-> a, override |-> o, archive |-> ar] :
                    a \in Archs, o \in Overrides, ar \in ResolveArchives}
    /\ ret = Pending
    /\ fs = EmptyCacheFs
    /\ proc = [q \in {1} |->
                  [BaseProc EXCEPT !.entry = "ensure", !.pc = "ensure.start", !.calls = 1]]

NextResolve ==
    \/ \E p \in Procs : EnsureCall(p)
    \/ \E p \in Procs : EnsureStart(p)
    \/ \E p \in Procs : EnsureStatGlibc(p)
    \/ \E p \in Procs : EnsureMkdir(p)
    \/ \E p \in Procs : EnsureDownload(p)
    \/ \E p \in Procs : UntarBegin(p)
    \/ \E p \in Procs : UntarNext(p)
    \/ \E p \in Procs : UntarOpen(p)
    \/ \E p \in Procs : UntarCopy(p)
    \/ \E p \in Procs : EnsureExtracted(p)
    \/ \E p \in Procs : EnsureChmodLoaders(p)
    \/ \E p \in Procs : EnsureReturn(p)

SpecResolve == InitResolve /\ [][NextResolve]_vars

(***************************************************************************)
(* C23                                                                     *)
(***************************************************************************)

\* neither the override nor a built-in default gives a URL
NoURLAvailable == call.override = "" /\ defaultBundleURL(call.arch) = ""

\* p has passed the URL lookup of the slow path with a URL
Downloads(p) == proc[p].tmp # ""

\* C23: on the slow path the URL used is the override AWSCLI_TARBALL_URL_<ARCH>
\* when it is non-empty and the built-in default of the architecture
\* otherwise; when neither is available ensureFromBundle fails with
\* NoURLConfigured without any network request and without a temporary
\* file.
C23_URLResolution ==
    \A p \in Procs :
        /\ (Downloads(p) /\ call.override # "") => proc[p].url = call.override
        /\ (Downloads(p) /\ call.override = "") =>
               (proc[p].url = defaultBundleURL(call.arch) /\ proc[p].url # "")
        /\ NoURLAvailable =>
               /\ proc[p].net = 0
               /\ ~Downloads(p)
               /\ TempArchives(fs) = {}
               /\ proc[p].pc = "done" => proc[p].perr = "NoURLConfigured"
        /\ proc[p].perr = "NoURLConfigured" => (NoURLAvailable /\ proc[p].net = 0)

\* a call on an architecture without default and without override has
\* failed for want of a URL
C23_Witness ==
    \E p \in Procs :
        /\ call.arch = "riscv64"
        /\ call.override = ""
        /\ proc[p].pc = "done"
        /\ proc[p].perr = "NoURLConfigured"
        /\ proc[p].net = 0

(***************************************************************************)
(* C24                                                                     *)
(***************************************************************************)

\* path lies in one of the subtrees a bundle is expected to fill, or leads
\* to one
InExpectedSubtree(path) ==
    \/ InsideRoot(distDir, path)
    \/ InsideRoot(glibcDir, path)
    \/ path \in Lineage(distDir)

\* C24: whatever the downloaded archive holds, every file or directory
\* under the cache root lies inside awscli/dist or glibc; entries named
\* outside those subtrees are skipped and never written.
C24_OnlyExpectedSubtrees ==
    \A path \in DOMAIN fs : InsideRoot(bundleRoot, path) => InExpectedSubtree(path)

(***************************************************************************)
(* Extraction of a given archive whose entries collide or break off        *)
(***************************************************************************)

\* entries a given archive holds at most
MaxArchiveEntries == 2

\* a directory, files that take its name or lie below it, and a file whose
\* content ends before its declared size
AbortHeaders(prefix) ==
    {Header(prefix \o "a", "dir", 0, 0),
     Header(prefix \o "a", "reg", 1, 1),
     Header(prefix \o "a/f", "reg", 1, 1),
     Header(prefix \o "a/f", "reg", 2, 1),
     Header(prefix \o "a/f", "dir", 0, 0)}

\* untarGzSafe(src, dst) and unzipAwsDist(zipPath, destDist) on an archive
InitAbort ==
    /\ ret = Pending
    /\ fs = RootFs("/r/b")
    /\ \/ /\ call \in {[fn |-> "untarGzSafe", archive |-> a] :
                          a \in SeqsUpTo(AbortHeaders(""), MaxArchiveEntries)}
          /\ proc = [q \in {1} |->
                        [BaseProc EXCEPT !.entry = "extract", !.pc = "untar.next",
                                         !.dst = "/r/b"]]
       \/ /\ call \in {[fn |-> "unzipAwsDist", archive |-> a] :
                          a \in SeqsUpTo(AbortHeaders(zipPrefix), MaxArchiveEntries)}
          /\ proc = [q \in {1} |->
                        [BaseProc EXCEPT !.entry = "extract.zip", !.pc = "unzip.next",
                                         !.dst = "/r/b"]]

NextAbort ==
    \/ \E p \in Procs : UntarNext(p)
    \/ \E p \in Procs : UntarOpen(p)
    \/ \E p \in Procs : UntarCopy(p)
    \/ \E p \in Procs : UnzipNext(p)
    \/ \E p \in Procs : UnzipOpen(p)
    \/ \E p \in Procs : UnzipCopy(p)

SpecAbort == InitAbort /\ [][NextAbort]_vars

(***************************************************************************)
(* C25                                                                     *)
(***************************************************************************)

\* a file stands where a directory is needed on the way to path
Blocked(f, path) == \E q \in Lineage(path) : Exists(f, q) /\ f[q].kind # "dir"

\* the directory the entry just read needs: itself, or its parent
NeededDir(rec) ==
    LET t == Join(rec.dst, TrimPrefix(rec.h.name, zipPrefix))
    IN  IF rec.h.type = "dir" THEN t ELSE Dir(t)

\* the step of p hits an I/O failure: a directory cannot be made for the
\* entry it reads, the destination cannot be opened, or the content ends
\* before the declared size
MkdirFails(p) ==
    /\ proc[p].pc \in {"untar.next", "unzip.next"}
    /\ proc'[p].n = proc[p].n + 1
    /\ Blocked(fs, NeededDir(proc'[p]))
OpenFails(p) ==
    /\ proc[p].pc \in {"untar.open", "unzip.open"}
    /\ IsDirAt(fs, proc[p].target)
CopyFails(p) ==
    /\ proc[p].pc \in {"untar.copy", "unzip.copy"}
    /\ proc[p].h.actual < proc[p].h.size

\* the extraction ends with the failure, and no node but the destination of
\* the failing entry changes
AbortsWithIOFailure(p) ==
    /\ proc'[p].pc = "done"
    /\ proc'[p].err = "IOFailure"
    /\ \A q \in DOMAIN fs : q # proc[p].target => (q \in DOMAIN fs' /\ fs'[q] = fs[q])

\* the failure is dropped: the loop goes on to the next entry without an
\* error, and no node but the destination of the entry changes
GoesOn(p) ==
    /\ proc'[p].pc = "unzip.next"
    /\ proc'[p].err = ""
    /\ \A q \in DOMAIN fs : q # proc[p].target => (q \in DOMAIN fs' /\ fs'[q] = fs[q])

TwiceHeaders ==
    {Header("a", "dir", 0, 0),
     Header("a/f", "reg", 1, 1),
     Header("a/f", "reg", 0, 0),
     [Header("f", "reg", maxEntryBytes, maxEntryBytes) EXCEPT !.data = "q"]}

\* a longer file of an earlier extraction at the place of a/f
OldFile == [FileNode(TRUE, 3) EXCEPT !.data = "old"]

\* the destination is empty, or holds the older file
InitTwice ==
    /\ ret = Pending
    /\ \E a \in SeqsUpTo(TwiceHeaders, MaxArchiveEntries), old \in BOOLEAN :
          /\ call = [fn |-> "untarGzSafe", archive |-> a, old |-> old]
          /\ fs = IF old
                  THEN WithNodes(MkdirAll(RootFs("/r/b"), "/r/b/a").fs,
                                 [q \in {"/r/b/a/f"} |-> OldFile])
                  ELSE RootFs("/r/b")
    /\ proc = [q \in {1} |->
                  [BaseProc EXCEPT !.entry = "extract.twice", !.pc = "untar.next",
                                   !.dst = "/r/b", !.calls = 1]]

\* the caller extracts the same archive into the same destination again
ExtractAgain(p) ==
    /\ proc[p].entry = "extract.twice"
    /\ proc[p].pc = "done"
    /\ proc[p].calls = 1
    /\ SetProc(p, [proc[p] EXCEPT !.pc = "untar.next", !.calls = 2, !.snapshot = fs,
                                  !.n = 0, !.extracted = 0, !.h = NoHeader,
                                  !.target = "", !.err = ""])
    /\ UNCHANGED <<call, ret, fs>>

NextTwice ==
    \/ \E p \in Procs : UntarNext(p)
    \/ \E p \in Procs : UntarOpen(p)
    \/ \E p \in Procs : UntarCopy(p)
    \/ \E p \in Procs : ExtractAgain(p)

SpecTwice == InitTwice /\ [][NextTwice]_vars

(***************************************************************************)
(* C26                                                                     *)
(***************************************************************************)

\* the last entry of the archive with the name of entry i
LastNamed(i) ==
    \A j \in (i + 1)..Len(call.archive) : call.archive[j].name # call.archive[i].name

\* every file of the archive holds exactly the content of its entry
HoldsArchive(rec) ==
    \A i \in 1..Len(call.archive) :
        (call.archive[i].type = "reg" /\ LastNamed(i)) =>
            LET path == Join(rec.dst, call.archive[i].name)
            IN  /\ Exists(fs, path)
                /\ fs[path].kind = "file"
                /\ SameContent(fs, path, call.archive[i])

\* C26: an entry whose destination exists as a file is overwritten with
\* truncate-then-write semantics: the file then holds exactly the content
\* of the entry, without bytes of a longer previous file; extracting the
\* same well-formed archive a second time into the same destination leaves
\* the destination as the first extraction left it.
C26_Idempotent ==
    \A p \in Procs :
        (proc[p].entry = "extract.twice" /\ proc[p].pc = "done") =>
            /\ proc[p].err = ""
            /\ HoldsArchive(proc[p])
            /\ proc[p].calls = 2 => fs = proc[p].snapshot

\* the archive has been extracted twice over a longer older file, which
\* now holds the one byte of its entry
C26_Witness ==
    \E p \in Procs :
        /\ proc[p].entry = "extract.twice"
        /\ proc[p].pc = "done"
        /\ proc[p].calls = 2
        /\ call.old
        /\ fs = proc[p].snapshot
        /\ fs["/r/b/a/f"].len = 1
        /\ fs["/r/b/a/f"].data = "p"

(***************************************************************************)
(* Extraction of a given archive of large entries                          *)
(***************************************************************************)

\* entries at the per-entry limit, above it and far below it (in a zip, one
\* whose content is longer than it declares), and a directory
LimitHeaders(prefix) ==
    {Header(prefix \o "a", "reg", maxEntryBytes, maxEntryBytes),
     Header(prefix \o "b", "reg", maxEntryBytes + 1, maxEntryBytes + 1),
     Header(prefix \o "c", "reg", 1, IF prefix = "" THEN 1 ELSE 2),
     Header(prefix \o "d", "dir", 0, 0)}

\* untarGzSafe and the zip loop of ensureFromOfficialZip on an archive
InitLimits ==
    /\ ret = Pending
    /\ fs = RootFs("/r/b")
    /\ \/ /\ call \in {[fn |-> "untarGzSafe", archive |-> a] :
                          a \in SeqsUpTo(LimitHeaders(""), MaxEntries)}
          /\ proc = [q \in {1} |->
                        [BaseProc EXCEPT !.entry = "extract", !.pc = "untar.next",
                                         !.dst = "/r/b"]]
       \/ /\ call \in {[fn |-> "ensureFromOfficialZip", archive |-> a] :
                          a \in SeqsUpTo(LimitHeaders(zipPrefix), MaxEntries)}
          /\ proc = [q \in {1} |->
                        [BaseProc EXCEPT !.entry = "extract.official", !.pc = "zip.next",
                                         !.dst = "/r/b"]]

NextLimits ==
    \/ \E p \in Procs : UntarNext(p)
    \/ \E p \in Procs : UntarOpen(p)
    \/ \E p \in Procs : UntarCopy(p)
    \/ \E p \in Procs : ZipNext(p)
    \/ \E p \in Procs : ZipOpen(p)
    \/ \E p \in Procs : ZipCopy(p)

SpecLimits == InitLimits /\ [][NextLimits]_vars

(***************************************************************************)
(* C27                                                                     *)
(***************************************************************************)

\* the entries of the archive whose copy has been completed: all that have
\* been read, but for the one being processed or the one that failed
CompletedUpTo(rec) ==
    IF rec.pc \in {"untar.next", "zip.next"} \/ (rec.pc = "done" /\ rec.err = "")
    THEN rec.n ELSE rec.n - 1

\* the sum of the declared sizes of the regular entries among the first k
RECURSIVE DeclaredSum(_)
DeclaredSum(k) ==
    IF k <= 0 THEN 0
    ELSE DeclaredSum(k - 1) + (IF call.archive[k].type = "reg" THEN call.archive[k].size ELSE 0)

\* the file at path has no more bytes than some entry of that name declares
WithinDeclared(rec, path) ==
    \E i \in 1..Len(call.archive) :
        /\ Join(rec.dst, TrimPrefix(call.archive[i].name, zipPrefix)) = path
        /\ fs[path].len <= call.archive[i].size

\* C27: in every state of an extraction the running total is at most
\* maxExtractBytes and equals the sum of the declared sizes of the regular
\* files completed so far; no destination file holds more bytes than its
\* entry declares, nor more than maxEntryBytes; and an entry whose
\* destination is being created or written has passed both size checks.
C27_LimitsBeforeCopy ==
    \A p \in Procs :
        /\ proc[p].extracted <= maxExtractBytes
        /\ proc[p].extracted = DeclaredSum(CompletedUpTo(proc[p]))
        /\ \A path \in DOMAIN fs :
              fs[path].kind = "file" =>
                  (fs[path].len <= maxEntryBytes /\ WithinDeclared(proc[p], path))
        /\ proc[p].pc \in {"untar.open", "untar.copy", "zip.open", "zip.copy"} =>
              /\ proc[p].h.size <= maxEntryBytes
              /\ proc[p].extracted + proc[p].h.size <= maxExtractBytes

\* untarGzSafe has completed files that fill the total limit exactly
C27_Witness ==
    \E p \in Procs :
        /\ proc[p].entry = "extract"
        /\ proc[p].pc = "untar.next"
        /\ proc[p].extracted = maxExtractBytes
        /\ fs["/r/b/a"].len = maxEntryBytes

(***************************************************************************)
(* ensureAWS of the first revision, and one caller that provisions twice   *)
(***************************************************************************)

\* distDir and finalAws of ensureAWS
firstDistDir == Join(Join(depsRoot, "awscli"), "dist")
finalAws     == Join(firstDistDir, "aws")

\* os.TempDir()/awscliv2-<time.Now().UnixNano()>.zip
tmpZip == Join(TempDir, "awscliv2-1.zip")

\* the switch on runtime.GOARCH of ensureAWS
officialZipURL(arch) ==
    IF arch = "amd64" THEN "https://awscli.amazonaws.com/awscli-exe-linux-x86_64.zip"
    ELSE IF arch = "arm64" THEN "https://awscli.amazonaws.com/awscli-exe-linux-aarch64.zip"
    ELSE ""

\* ensureAWS up to the download: the fast path, os.MkdirAll(distDir) and
\* the URL of the architecture
EnsureAWSStart(p) ==
    /\ proc[p].pc = "ensureaws.start"
    /\ IF isExecutable(fs, finalAws)
       THEN /\ fs' = fs
            /\ SetProc(p, EnsureDone([proc[p] EXCEPT !.validAtStart = TRUE], "",
                                     <<finalAws, "", firstDistDir>>))
       ELSE LET m == MkdirAll(fs, firstDistDir)
                r == [proc[p] EXCEPT !.validAtStart = FALSE]
            IN  IF ~m.ok
                THEN /\ fs' = fs
                     /\ SetProc(p, EnsureDone(r, "IOFailure", NoBundle))
                ELSE /\ fs' = m.fs
                     /\ IF officialZipURL(call.arch) = ""
                        THEN SetProc(p, EnsureDone(r, "UnsupportedArch", NoBundle))
                        ELSE SetProc(p, [r EXCEPT !.url = officialZipURL(call.arch),
                                                  !.tmp = tmpZip,
                                                  !.pc = "ensureaws.download"])
    /\ UNCHANGED <<call, ret>>

\* downloadFile(ctx, url, tmpZip): the request fails or the status is not
\* 200 (no file), or os.Create has made the file and the copy fails, or the
\* archive is written and unzipAwsDist(tmpZip, distDir) begins
EnsureAWSDownload(p) ==
    /\ proc[p].pc = "ensureaws.download"
    /\ LET r == [proc[p] EXCEPT !.net = @ + 1]
           o == OpenTrunc(fs, proc[p].tmp, HasExecBit("0o644"))
       IN  \/ /\ fs' = fs
              /\ SetProc(p, EnsureDone(r, "DownloadFailed", NoBundle))
           \/ /\ fs' = o.fs
              /\ SetProc(p, EnsureDone(r, "DownloadFailed", NoBundle))
           \/ /\ o.ok
              /\ fs' = WriteBytes(o.fs, proc[p].tmp, 1, "zip")
              /\ SetProc(p, [r EXCEPT !.dst = firstDistDir, !.extracted = 0, !.n = 0,
                                      !.h = NoHeader, !.target = "", !.err = "",
                                      !.pc = "unzip.next"])
    /\ UNCHANGED <<call, ret>>

\* unzipAwsDist has returned: the deferred os.Remove(tmpZip) runs, and the
\* call fails or ends with _ = os.Chmod(finalAws, 0o755)
EnsureAWSExtracted(p) ==
    /\ proc[p].pc = "ensureaws.extracted"
    /\ IF proc[p].err # ""
       THEN /\ fs' = Remove(fs, proc[p].tmp)
            /\ SetProc(p, EnsureDone(proc[p], "ExtractFailed", NoBundle))
       ELSE /\ fs' = Chmod755(Remove(fs, proc[p].tmp), finalAws)
            /\ SetProc(p, EnsureDone(proc[p], "", <<finalAws, "", firstDistDir>>))
    /\ UNCHANGED <<call, ret>>

\* the caller whose first ensureAWS has returned calls again
EnsureAWSCall(p) ==
    /\ proc[p].entry = "ensureAWS"
    /\ proc[p].pc = "done"
    /\ proc[p].calls = 1
    /\ SetProc(p, [proc[p] EXCEPT !.pc = "ensureaws.start", !.calls = 2,
                                  !.h = NoHeader, !.target = "", !.extracted = 0,
                                  !.err = "", !.n = 0, !.tmp = "", !.url = "",
                                  !.perr = "", !.bundle = NoBundle])
    /\ UNCHANGED <<call, ret, fs>>

\* the archives served: whole ones, and ones whose last entry fails the
\* path check after the binary has been written
RetryTars ==
    ResolveArchives \cup {<<LoaderEntry, AwsEntry, EscapeEntry>>}
RetryZips ==
    {<< >>,
     <<Header(zipPrefix \o "aws", "reg", 1, 1)>>,
     <<Header(zipPrefix \o "aws", "reg", 1, 1), Header(zipPrefix \o "../../x", "reg", 1, 1)>>,
     <<Header(zipPrefix \o "../../x", "reg", 1, 1)>>}

\* one caller on an empty cache, in the current or in the first revision
InitRetry ==
    /\ ret = Pending
    /\ fs = EmptyCacheFs
    /\ \/ /\ call \in {[fn |-> "ensureFromBundle", arch |-> a, override |-> "",
                        archive |-> ar] : a \in {"amd64", "riscv64"}, ar \in RetryTars}
          /\ proc = [q \in {1} |->
                        [BaseProc EXCEPT !.entry = "ensure", !.pc = "ensure.start",
                                         !.calls = 1]]
       \/ /\ call \in {[fn |-> "ensureAWS", arch |-> a, override |-> "",
                        archive |-> ar] : a \in {"amd64", "riscv64"}, ar \in RetryZips}
          /\ proc = [q \in {1} |->
                        [BaseProc EXCEPT !.entry = "ensureAWS", !.pc = "ensureaws.start",
                                         !.calls = 1]]

NextRetry ==
    \/ \E p \in Procs : EnsureCall(p)
    \/ \E p \in Procs : EnsureStart(p)
    \/ \E p \in Procs : EnsureStatGlibc(p)
    \/ \E p \in Procs : EnsureMkdir(p)
    \/ \E p \in Procs : EnsureDownload(p)
    \/ \E p \in Procs : UntarBegin(p)
    \/ \E p \in Procs : UntarNext(p)
    \/ \E p \in Procs : UntarOpen(p)
    \/ \E p \in Procs : UntarCopy(p)
    \/ \E p \in Procs : EnsureExtracted(p)
    \/ \E p \in Procs : EnsureChmodLoaders(p)
    \/ \E p \in Procs : EnsureReturn(p)
    \/ \E p \in Procs : EnsureAWSCall(p)
    \/ \E p \in Procs : EnsureAWSStart(p)
    \/ \E p \in Procs : EnsureAWSDownload(p)
    \/ \E p \in Procs : UnzipNext(p)
    \/ \E p \in Procs : UnzipOpen(p)
    \/ \E p \in Procs : UnzipCopy(p)
    \/ \E p \in Procs : EnsureAWSExtracted(p)

SpecRetry == InitRetry /\ [][NextRetry]_vars

(***************************************************************************)
(* C28                                                                     *)
(***************************************************************************)

\* the validity test of the fast path of p's revision
CacheValid(rec, f) ==
    IF rec.entry = "ensure" THEN Populated(f) ELSE isExecutable(f, finalAws)

\* p's call has failed
AttemptFailed(p) == proc[p].pc = "done" /\ proc[p].perr # ""

\* p's call returns a bundle without having gone through the slow path
FastPathReturn(p) ==
    /\ proc[p].pc \in {"ensure.start", "ensure.glibc", "ensureaws.start"}
    /\ ReturnsBundle(p)

BinaryArgs(rec, cmd) ==
    IF rec.ld # "" /\ cmd.path = rec.ld
    THEN SubSeq(cmd.argv, 4, Len(cmd.argv))
    ELSE cmd.argv

\* the command line Execute goes on with once the check has passed
CheckedLine(rec) ==
    IF Len(rec.prepend) > 0 THEN WithPrepend(rec, rec.tested[1]) ELSE rec.tested[1]

\* the requests under a non-empty allow-list
Filtered == {p \in Requests : Len(proc[p].allowed) > 0}

\* C29 as stated: whenever the allow-list is non-empty and Execute starts
\* the wrapped binary, the arguments passed to it are exactly the
\* tokenization of prependArgs followed by the normalized command that
\* passed the check, the helper reboot-ec2 path included.
C29_AsClaimed ==
    \A p \in Filtered :
        \A i \in 1..Len(proc[p].started) :
            /\ proc[p].tested # <<>>
            /\ isAllowed(proc[p].tested[1], proc[p].allowed)
            /\ BinaryArgs(proc[p], proc[p].started[i])
                  = ShlexSplit(CheckedLine(proc[p])).args

\* C29: whenever the allow-list is non-empty and Execute starts the wrapped
\* binary, the normalized command of the request has passed the allow-list
\* check; unless the command line with its prependArgs begins with
\* "helper reboot-ec2", the arguments passed to the binary are exactly the
\* tokenization of prependArgs followed by that checked command; on the
\* helper path the binary gets the fixed ec2 describe-instances query,
\* which is itself never checked against the allow-list.
C29_CheckedBeforeRun ==
    \A p \in Filtered :
        \A i \in 1..Len(proc[p].started) :
            /\ proc[p].tested = <<normalizeCmd(call.command)>>
            /\ isAllowed(proc[p].tested[1], proc[p].allowed)
            /\ BinaryArgs(proc[p], proc[p].started[i])
                  = IF HasPrefix(CheckedLine(proc[p]), "helper reboot-ec2")
                    THEN <<"ec2", "describe-instances", "--query",
                           "Reservations[].Instances[].InstanceId",
                           "--output", "text">>
                    ELSE ShlexSplit(CheckedLine(proc[p])).args

\* under a non-empty allow-list the loader has started the binary with the
\* prependArgs and the checked "s3 ls"
C29_Witness ==
    \E p \in Filtered :
        /\ Len(proc[p].started) > 0
        /\ proc[p].tested = <<"s3 ls">>
        /\ proc[p].prepend = <<"--region", "x">>
        /\ proc[p].ld # ""
        /\ BinaryArgs(proc[p], proc[p].started[1]) = <<"--region", "x", "s3", "ls">>


(***************************************************************************)
(* C30                                                                     *)
(***************************************************************************)

\* the allow-list has an entry that is empty or white space only
HasBlankEntry(allow) == \E i \in 1..Len(allow) : AllSpace(allow[i])

\* C30: an allow-list entry that is empty or consists only of white space
\* matches every command: when a non-empty allow-list holds such an entry,
\* isAllowed returns true for every command string and the allow-list test
\* of Execute rejects none.
C30_BlankEntryAllowsAll ==
    (ret # Pending /\ HasBlankEntry(call.allow)) =>
        /\ call.fn = "isAllowed" => ret = Returned(TRUE)
        /\ call.fn = "notAllowed" => ret = Returned(FALSE)

\* "ec2 delete-instance" begins with no "ee", and the empty entry after it
\* has let it through
C30_Witness ==
    /\ call.fn = "isAllowed"
    /\ call.cmd = "ec2 delete-instance"
    /\ call.allow = <<"ee", "">>
    /\ ret = Returned(TRUE)

=============================================================================
